---- MODULE Spec2Model ----
(***************************************************************************)
(* The test-case tool: TestCaseManager (src/src/core/test-case-manager.js), *)
(* the versioned, incremental test-case store; RequirementsDiscovery       *)
(* (src/unnamed/part_010), the extractors and the merge of their partial   *)
(* records; generateTestCases of IntelligentTestGenerator                  *)
(* (src/unnamed/part_009), which gathers and then updates; and             *)
(* AdaptivePatternLearner (src/unnamed/part_007), the learned patterns     *)
(* and their cache file.                                                   *)
(*                                                                         *)
(* A run of updateTestCases is modelled as the sequence of its await       *)
(* points: load, backup, oracle call, and the three writes of              *)
(* saveTestCases; a call of gatherRequirements as the start of its five    *)
(* extractors, the return of each, and the merge.  File-system operations  *)
(* may fail, the oracle may answer anything or raise.                      *)
(*                                                                         *)
(* Specifications: Spec and SpecSeeded (runs of updateTestCases),          *)
(* SpecPair (two runs for different subjects, interleaved at their await   *)
(* points), SpecHistory (getTestCaseHistory on stores with history),       *)
(* SpecMerge (mergeRequirements on lists of partials), SpecDiscovery       *)
(* (gatherRequirements), SpecGenerate (generateTestCases), SpecLearner     *)
(* (the pattern learner and its cache) and SpecClassify                    *)
(* (analyzeCodeWithLearnedPatterns).  Each leaves the variables of the     *)
(* other components as they are constructed.                               *)
(*                                                                         *)
(* JavaScript values are tagged records.  Strings whose characters the     *)
(* code inspects (ids, versions, subject names, requirement strings) are   *)
(* sequences of one-character strings (field c); all other strings are     *)
(* opaque (field v).  JSON.stringify followed by JSON.parse is the         *)
(* identity on the documents the store writes, because every value in      *)
(* them was itself produced by JSON.parse or is a string, number, array or *)
(* null literal; a file is therefore modelled by the document it holds.    *)
(***************************************************************************)
EXTENDS Naturals, Integers, Sequences, FiniteSets, TLC

(* ------------------------------ bounds -------------------------------- *)

\* number of runs of updateTestCases a behaviour holds
MaxRuns == 2
\* longest of the oracle's lists built freely from Elements (the echo of the
\* stored list and the lists of OddListReplies are replies besides these)
MaxReplyLen == 1

(* --------------------------- JavaScript values ------------------------ *)

\* the content of a file that does not exist
Missing == [t |-> "missing"]

Undefined == [t |-> "undefined"]
Null == [t |-> "null"]
Text(s) == [t |-> "string", v |-> s]
Chars(s) == [t |-> "string", c |-> s]
Num(n) == [t |-> "number", v |-> n]
Arr(s) == [t |-> "array", v |-> s]
Obj(r) == [t |-> "object", v |-> r]

\* ToBoolean, as the || operator applies it
Truthy(x) ==
  CASE x.t \in {"undefined", "null"} -> FALSE
    [] x.t = "string" -> IF "c" \in DOMAIN x THEN x.c # <<>> ELSE x.v # ""
    [] x.t = "number" -> x.v # 0
    [] OTHER -> TRUE

\* a || b
OrElse(a, b) == IF Truthy(a) THEN a ELSE b

IsArray(x) == x.t = "array"

\* o.f for a value o that is not null or undefined: a primitive or an array
\* has none of the test-case properties
Prop(o, f) ==
  IF o.t = "object" /\ f \in DOMAIN o.v THEN o.v[f] ELSE Undefined

(* ------------------------------ strings ------------------------------- *)

Digit == <<"0", "1", "2", "3", "4", "5", "6", "7", "8", "9">>

DigitVal(ch) == (CHOOSE i \in 1..10 : Digit[i] = ch) - 1

RECURSIVE NumToStr(_)
\* String(n) of a non-negative integer
NumToStr(n) ==
  IF n < 10 THEN <<Digit[n + 1]>>
  ELSE NumToStr(n \div 10) \o <<Digit[(n % 10) + 1]>>

RECURSIVE StrToNum(_, _)
\* Number(s) of a string of decimal digits (acc: the value read so far);
\* the empty string is 0
StrToNum(s, acc) ==
  IF s = <<>> THEN acc
  ELSE StrToNum(Tail(s), acc * 10 + DigitVal(Head(s)))

RECURSIVE SplitDot(_, _)
\* s.split('.') (cur: the piece being read)
SplitDot(s, cur) ==
  IF s = <<>> THEN <<cur>>
  ELSE IF Head(s) = "." THEN <<cur>> \o SplitDot(Tail(s), <<>>)
  ELSE SplitDot(Tail(s), Append(cur, Head(s)))

\* s.split('.').map(Number)
VersionParts(s) ==
  LET p == SplitDot(s, <<>>) IN [i \in 1..Len(p) |-> StrToNum(p[i], 0)]

V000 == <<"0", ".", "0", ".", "0">>
V100 == <<"1", ".", "0", ".", "0">>

\* a mutant of getNextVersion: the minor number is incremented, patch reset
GetNextVersionMinor(currentVersion) ==
  IF currentVersion = V000 THEN V100
  ELSE LET p == VersionParts(currentVersion) IN
       NumToStr(p[1]) \o <<".">> \o NumToStr(p[2] + 1) \o <<".">> \o <<"0">>

\* getNextVersion(currentVersion); the version of a stored document is never
\* empty, so !currentVersion is false
GetNextVersion(currentVersion) ==
  IF currentVersion = V000 THEN V100
  ELSE LET p == VersionParts(currentVersion) IN
       NumToStr(p[1]) \o <<".">> \o NumToStr(p[2]) \o <<".">> \o NumToStr(p[3] + 1)

\* compareVersions(a, b) of two version strings
CompareVersions(a, b) ==
  LET pa == VersionParts(a)
      pb == VersionParts(b)
  IN IF pa[1] # pb[1] THEN pa[1] - pb[1]
     ELSE IF pa[2] # pb[2] THEN pa[2] - pb[2]
     ELSE pa[3] - pb[3]

Upper(ch) ==
  CASE ch = "d" -> "D" [] ch = "a" -> "A" [] ch = "s" -> "S" [] ch = "h" -> "H"
    [] ch = "v" -> "V"
    [] OTHER -> ch

\* s.toUpperCase()
ToUpperCase(s) == [i \in 1..Len(s) |-> Upper(s[i])]

\* String(n).padStart(3, '0')
PadStart3(n) ==
  LET d == NumToStr(n) IN
  IF Len(d) >= 3 THEN d ELSE [i \in 1..(3 - Len(d)) |-> "0"] \o d

\* s.startsWith(p), s.endsWith(p)
StartsWith(s, p) == Len(s) >= Len(p) /\ SubSeq(s, 1, Len(p)) = p
EndsWith(s, p) == Len(s) >= Len(p) /\ SubSeq(s, Len(s) - Len(p) + 1, Len(s)) = p

IsDigit(ch) == \E i \in 1..10 : Digit[i] = ch

RECURSIVE DigitRun(_, _)
\* what \d+ consumes of s at position i: the length of the run of digits
DigitRun(s, i) ==
  IF i <= Len(s) /\ IsDigit(s[i]) THEN 1 + DigitRun(s, i + 1) ELSE 0

\* the group of /v(\d+\.\d+\.\d+)/ matched with its v at position i of s, or
\* the empty sequence when the expression does not match there
VersionAt(s, i) ==
  LET a == i + 1
      d1 == DigitRun(s, a)
      b == a + d1 + 1
      d2 == DigitRun(s, b)
      c == b + d2 + 1
      d3 == DigitRun(s, c)
  IN IF /\ s[i] = "v"
        /\ d1 > 0 /\ a + d1 <= Len(s) /\ s[a + d1] = "."
        /\ d2 > 0 /\ b + d2 <= Len(s) /\ s[b + d2] = "."
        /\ d3 > 0
     THEN SubSeq(s, a, c + d3 - 1)
     ELSE <<>>

\* s.match(/v(\d+\.\d+\.\d+)/)?.[1]: the group of the leftmost match, or the
\* empty sequence for undefined
MatchVersion(s) ==
  LET at == {i \in 1..Len(s) : VersionAt(s, i) # <<>>} IN
  IF at = {} THEN <<>>
  ELSE VersionAt(s, CHOOSE i \in at : \A j \in at : i <= j)

(* ------------------------- subjects and paths -------------------------- *)

dash == <<"d", "a", "s", "h">>

\* the subjects (pageName) updateTestCases is run for
Pages == {dash}

SfxTestCases ==
  <<"-", "t", "e", "s", "t", "-", "c", "a", "s", "e", "s", ".", "j", "s", "o", "n">>
SfxRequirements ==
  <<"-", "r", "e", "q", "u", "i", "r", "e", "m", "e", "n", "t", "s", ".", "j", "s", "o", "n">>
SfxJson == <<".", "j", "s", "o", "n">>

\* `${pageName}-test-cases.json` in testCasesDir
CurrentPath(pageName) ==
  [dir |-> "test-cases", name |-> pageName \o SfxTestCases]

\* `${pageName}-requirements.json` in testCasesDir
RequirementsPath(pageName) ==
  [dir |-> "test-cases", name |-> pageName \o SfxRequirements]

\* a mutant of the path of the snapshot: the subject is not in the name
VersionPathUnnamed(pageName, version) ==
  [dir |-> "test-cases/versions", name |-> <<"v">> \o version \o SfxJson]

\* `${pageName}-v${version}.json` in versionsDir
VersionPath(pageName, version) ==
  [dir |-> "test-cases/versions", name |-> pageName \o <<"-", "v">> \o version \o SfxJson]

\* `${pageName}-backup-${timestamp}.json` in backupDir; the timestamp is the
\* clock reading (the ISO text of a reading is one-to-one with the reading)
BackupPath(pageName, timestamp) ==
  [dir |-> "test-cases/backups",
   name |-> pageName \o <<"-", "b", "a", "c", "k", "u", "p", "-">> \o NumToStr(timestamp) \o SfxJson]

\* fs.writeFile(path, JSON.stringify(content)) that succeeds
WriteFile(files, path, content) == (path :> content) @@ files

Exists(files, path) == path \in DOMAIN files

(* ----------------------------- documents ------------------------------- *)

EmptyMetadata ==
  [totalTestCases |-> 0, newTestCases |-> 0, updatedTestCases |-> 0,
   deprecatedTestCases |-> 0, changesSummary |-> <<>>]

\* the structure loadExistingTestCases returns when the read or the parse of
\* the current document fails
EmptyStructure(pageName, time) ==
  [version |-> V000, lastUpdated |-> time, pageName |-> pageName,
   requirements |-> Obj(<<>>), testCases |-> <<>>, metadata |-> EmptyMetadata]

\* loadExistingTestCases(pageName); readOk: readFile and JSON.parse succeed
\* when the file exists.  A missing file, a failed read and a content
\* JSON.parse rejects all end in the catch block
LoadExistingTestCases(files, pageName, readOk, time) ==
  IF Exists(files, CurrentPath(pageName)) /\ readOk
  THEN files[CurrentPath(pageName)]
  ELSE EmptyStructure(pageName, time)

(* ------------------------------ the oracle ----------------------------- *)

\* bodies JSON.parse rejects: text that is not JSON or is JSON cut short, and
\* the empty text
Unparseable == [t |-> "unparseable"]
EmptyBody == [t |-> "empty"]

\* a reply text: what encloses the body, and the body
\*   "none"  the body alone              "json"  ```json body ```
\*   "bare"  ``` body ```                "prose" words, then a fenced body
ReplyText(fence, body) == [t |-> "string", fence |-> fence, json |-> body]

\* claudeResponse.trim(), the two fence removals and JSON.parse:
\* [ok, value]; ok is FALSE when any of them throws
ParseReply(claudeResponse) ==
  IF claudeResponse.t # "string" THEN [ok |-> FALSE]
  ELSE IF claudeResponse.fence \notin {"none", "json", "bare"} THEN [ok |-> FALSE]
  ELSE IF claudeResponse.json \in {Unparseable, EmptyBody} THEN [ok |-> FALSE]
  ELSE [ok |-> TRUE, value |-> claudeResponse.json]

PagePrefix(existing) ==
  IF ToUpperCase(existing.pageName) # <<>> THEN ToUpperCase(existing.pageName)
  ELSE <<"P", "A", "G", "E">>

\* the default id of the test case at (1-based) position i
DefaultId(existing, i) == Chars(PagePrefix(existing) \o <<"-">> \o PadStart3(i))

\* a mutant of the map callback: every case is numbered as a new one, after
\* the existing cases, whatever id the reply carries
ValidatedRenumbered(testCase, i, existing) ==
  [id |-> DefaultId(existing, Len(existing.testCases) + i),
   title |-> OrElse(Prop(testCase, "title"), Text("Untitled Test Case")),
   description |-> OrElse(Prop(testCase, "description"), Text("")),
   priority |-> OrElse(Prop(testCase, "priority"), Text("medium")),
   category |-> OrElse(Prop(testCase, "category"), Text("functional")),
   status |-> OrElse(Prop(testCase, "status"), Text("new")),
   addedIn |-> OrElse(Prop(testCase, "addedIn"), Chars(GetNextVersion(existing.version))),
   lastModified |-> OrElse(Prop(testCase, "lastModified"), Chars(GetNextVersion(existing.version))),
   steps |-> IF IsArray(Prop(testCase, "steps")) THEN Prop(testCase, "steps")
             ELSE Arr(<<Text("Add test steps")>>),
   expectedResult |-> OrElse(Prop(testCase, "expectedResult"), Text("Define expected result")),
   tags |-> IF IsArray(Prop(testCase, "tags")) THEN Prop(testCase, "tags") ELSE Arr(<<>>),
   changes |-> OrElse(Prop(testCase, "changes"), Null)]

\* the callback of parsed.map for a test case that is not null (i: index + 1)
Validated(testCase, i, existing) ==
  [id |-> OrElse(Prop(testCase, "id"), DefaultId(existing, i)),
   title |-> OrElse(Prop(testCase, "title"), Text("Untitled Test Case")),
   description |-> OrElse(Prop(testCase, "description"), Text("")),
   priority |-> OrElse(Prop(testCase, "priority"), Text("medium")),
   category |-> OrElse(Prop(testCase, "category"), Text("functional")),
   status |-> OrElse(Prop(testCase, "status"), Text("new")),
   addedIn |-> OrElse(Prop(testCase, "addedIn"), Chars(GetNextVersion(existing.version))),
   lastModified |-> OrElse(Prop(testCase, "lastModified"), Chars(GetNextVersion(existing.version))),
   steps |-> IF IsArray(Prop(testCase, "steps")) THEN Prop(testCase, "steps")
             ELSE Arr(<<Text("Add test steps")>>),
   expectedResult |-> OrElse(Prop(testCase, "expectedResult"), Text("Define expected result")),
   tags |-> IF IsArray(Prop(testCase, "tags")) THEN Prop(testCase, "tags") ELSE Arr(<<>>),
   changes |-> OrElse(Prop(testCase, "changes"), Null)]

\* a mutant of the catch block: no test cases are returned
FallbackEmpty(existing) == <<>>

\* the catch block: the existing test cases with lastModified set
Fallback(existing) ==
  [i \in 1..Len(existing.testCases) |->
     [existing.testCases[i] EXCEPT !.lastModified = Chars(GetNextVersion(existing.version))]]

\* what a call of parseAndValidateTestCases ends with: the list it returns, or
\* an exception escaping it
Returns(testCases) == [throws |-> FALSE, value |-> testCases]
Throws == [throws |-> TRUE]

\* a mutant of parseAndValidateTestCases: the map runs outside the try block,
\* so the TypeError of a null element escapes
ParseAndValidateNoCatch(claudeResponse, existing) ==
  LET p == ParseReply(claudeResponse) IN
  IF ~p.ok \/ ~IsArray(p.value) THEN Returns(Fallback(existing))
  ELSE IF \E i \in 1..Len(p.value.v) : p.value.v[i] = Null THEN Throws
  ELSE Returns([i \in 1..Len(p.value.v) |-> Validated(p.value.v[i], i, existing)])

\* parseAndValidateTestCases(claudeResponse, existing): reading a property of
\* a null element throws inside the try block, as the failed parse and the
\* 'not an array' error do
ParseAndValidateTestCases(claudeResponse, existing) ==
  LET p == ParseReply(claudeResponse) IN
  IF ~p.ok \/ ~IsArray(p.value) THEN Returns(Fallback(existing))
  ELSE IF \E i \in 1..Len(p.value.v) : p.value.v[i] = Null THEN Returns(Fallback(existing))
  ELSE Returns([i \in 1..Len(p.value.v) |-> Validated(p.value.v[i], i, existing)])

Ids(testCases) == {testCases[i].id : i \in 1..Len(testCases)}

\* the positions of a list, for filter(...).length
Positions(testCases) == 1..Len(testCases)

RECURSIVE Summary(_)
\* the changes of the test cases that carry any, as `${tc.id}: ${tc.changes}`
Summary(testCases) ==
  IF testCases = <<>> THEN <<>>
  ELSE LET tc == Head(testCases) IN
       (IF Truthy(tc.changes)
        THEN <<[t |-> "string", id |-> tc.id, sep |-> ": ", changes |-> tc.changes]>>
        ELSE <<>>) \o Summary(Tail(testCases))

\* calculateMetadata(existing, updated)
CalculateMetadata(existing, updated) ==
  LET existingIds == Ids(existing.testCases)
      IsNew(tc) == tc.status = Text("new") \/ tc.id \notin existingIds
      IsUpdated(tc) == tc.status = Text("updated") /\ tc.id \in existingIds
      IsDeprecated(tc) == tc.status = Text("deprecated")
  IN [totalTestCases |-> Len(updated.testCases),
      newTestCases |->
        Cardinality({i \in Positions(updated.testCases) : IsNew(updated.testCases[i])}),
      updatedTestCases |->
        Cardinality({i \in Positions(updated.testCases) : IsUpdated(updated.testCases[i])}),
      deprecatedTestCases |->
        Cardinality({i \in Positions(updated.testCases) : IsDeprecated(updated.testCases[i])}),
      changesSummary |-> Summary(updated.testCases)]

\* newRequirements.f || []
ReqField(newRequirements, f) == OrElse(Prop(newRequirements, f), Arr(<<>>))

\* the result object updateTestCases builds after the oracle's reply
BuildResult(pageName, newRequirements, existing, currentVersion, testCases, time) ==
  LET result ==
        [version |-> currentVersion, lastUpdated |-> time, pageName |-> pageName,
         requirements |->
           [sources |-> ReqField(newRequirements, "sources"),
            lastAnalyzed |-> time,
            functional |-> ReqField(newRequirements, "functional"),
            businessRules |-> ReqField(newRequirements, "businessRules"),
            userWorkflows |-> ReqField(newRequirements, "userWorkflows"),
            performance |-> ReqField(newRequirements, "performance"),
            accessibility |-> ReqField(newRequirements, "accessibility")],
         testCases |-> testCases, metadata |-> EmptyMetadata]
  IN [result EXCEPT !.metadata = CalculateMetadata(existing, result)]

(* ------------------------------- inputs -------------------------------- *)

DASH001 == Chars(<<"D", "A", "S", "H", "-", "0", "0", "1">>)
V999 == Chars(<<"9", ".", "9", ".", "9">>)

\* a complete new case
CaseNew ==
  Obj([id |-> DASH001, status |-> Text("new"), title |-> Text("Recent trades visible"),
       steps |-> Arr(<<Text("Navigate to dashboard"), Text("Check trades list")>>),
       expectedResult |-> Text("List is visible and populated")])

\* the same id edited: another addedIn, a priority and a status outside the
\* enumerations, no steps, an empty expectedResult
CaseEdited ==
  Obj([id |-> DASH001, status |-> Text("updated"), changes |-> Text("clarified expected result"),
       addedIn |-> V999, priority |-> Text("urgent"), steps |-> Arr(<<>>),
       expectedResult |-> Text("")])

\* a case that stays active and carries a changes note
CaseNoted ==
  Obj([id |-> DASH001, status |-> Text("active"), changes |-> Text("reworded the title"),
       steps |-> Arr(<<Text("Navigate to dashboard")>>),
       expectedResult |-> Text("List is visible and populated")])

\* a case with one property null and the others missing
CaseBare == Obj([priority |-> Null])

\* the test-case objects the oracle's lists of every length are made of
Elements == {CaseNew, CaseEdited}

\* the lists of at most n elements
ListsUpTo(n) == UNION {[1..k -> Elements] : k \in 0..n}

\* replies that parse as a list of objects
ListReplies ==
  {ReplyText("none", Arr(l)) : l \in ListsUpTo(MaxReplyLen)}
    \cup {ReplyText("json", Arr(<<CaseNew>>)), ReplyText("bare", Arr(<<CaseEdited>>))}

\* replies that parse as a list with missing properties, with a changes note
\* on a case that is not updated, or with elements that are no objects
OddListReplies ==
  {ReplyText("none", Arr(<<CaseBare>>)), ReplyText("none", Arr(<<CaseNew, CaseBare>>)),
   ReplyText("none", Arr(<<CaseNoted>>)),
   ReplyText("none", Arr(<<CaseNew, CaseEdited>>)),
   ReplyText("none", Arr(<<Null>>)), ReplyText("none", Arr(<<CaseNew, Null>>)),
   ReplyText("none", Arr(<<Num(5)>>))}

\* replies that are no text, do not parse, or parse as something else
NonListReplies ==
  {Undefined, Arr(<<CaseNew>>), ReplyText("none", Unparseable), ReplyText("none", EmptyBody),
   ReplyText("none", Obj([id |-> DASH001])), ReplyText("prose", Arr(<<CaseNew>>))}

\* the reply of an oracle that echoes the existing test cases of its prompt
Echo(existing) ==
  ReplyText("none",
            Arr([i \in 1..Len(existing.testCases) |-> Obj(existing.testCases[i])]))

\* malformed replies: those parseAndValidateTestCases cannot read as a list
\* of test cases
Malformed(reply) ==
  \/ ~ParseReply(reply).ok
  \/ ~IsArray(ParseReply(reply).value)
  \/ \E i \in 1..Len(ParseReply(reply).value.v) : ParseReply(reply).value.v[i] = Null

\* the requirements records updateTestCases is given
Requirements ==
  {Obj([functional |-> Arr(<<Text("user can view recent trades")>>)])}

(* --------------------------- getTestCaseHistory ------------------------ *)

\* the callback of the sort: the versions in the two file names, compared by
\* compareVersions, whose first lines answer for a name without version
CompareFiles(a, b) ==
  LET aVersion == MatchVersion(a)
      bVersion == MatchVersion(b)
  IN IF aVersion = <<>> THEN 0 - 1
     ELSE IF bVersion = <<>> THEN 1
     ELSE CompareVersions(aVersion, bVersion)

RECURSIVE InsertSorted(_, _)
\* one step of a stable sort: f is put after the last name that does not
\* compare above it
InsertSorted(sorted, f) ==
  IF sorted = <<>> THEN <<f>>
  ELSE IF CompareFiles(sorted[Len(sorted)], f) > 0
  THEN Append(InsertSorted(SubSeq(sorted, 1, Len(sorted) - 1), f), sorted[Len(sorted)])
  ELSE Append(sorted, f)

RECURSIVE SortFiles(_)
\* Array.prototype.sort with the callback: a stable sort
SortFiles(names) ==
  IF names = <<>> THEN <<>>
  ELSE InsertSorted(SortFiles(SubSeq(names, 1, Len(names) - 1)), names[Len(names)])

\* the entry pushed for the document of one snapshot (the documents the
\* store writes carry metadata, test cases and a summary list)
HistoryEntry(data) ==
  [version |-> data.version, lastUpdated |-> data.lastUpdated,
   totalTestCases |-> IF data.metadata.totalTestCases # 0
                      THEN data.metadata.totalTestCases
                      ELSE Len(data.testCases),
   changes |-> data.metadata.changesSummary]

\* the names of versionsDir in the files
VersionsDir(files) == {p.name : p \in {q \in DOMAIN files : q.dir = "test-cases/versions"}}

\* the body of getTestCaseHistory(pageName); listing: what readdir returns,
\* the names of versionsDir in the order of the directory; readOk: readdir
\* and every readFile succeed, otherwise the catch block returns []
HistoryOf(files, pageName, listing, readOk) ==
  LET Wanted(f) == StartsWith(f, pageName \o <<"-", "v">>) /\ EndsWith(f, SfxJson)
      pageVersions == SortFiles(SelectSeq(listing, Wanted))
  IN IF ~readOk THEN <<>>
     ELSE [i \in 1..Len(pageVersions) |->
             HistoryEntry(files[[dir |-> "test-cases/versions", name |-> pageVersions[i]]])]

(* ------------------------- RequirementsDiscovery ----------------------- *)

RequirementKeys ==
  <<"functional", "businessRules", "userWorkflows", "performance", "accessibility">>

\* getEmptyAnalysis(source)
GetEmptyAnalysis(source) ==
  Obj([source |-> source, functional |-> Arr(<<>>), businessRules |-> Arr(<<>>),
       userWorkflows |-> Arr(<<>>), performance |-> Arr(<<>>), accessibility |-> Arr(<<>>)])

\* the source names of the five extractors, in the order of the Promise.all
SourceNames ==
  <<Text("code-analysis"), Text("documentation"), Text("existing-requirements"),
    Text("user-interactions"), Text("test-history")>>

RECURSIVE Trim(_)
\* s.trim() of a sequence of characters (the blank is the white space of
\* the strings here)
Trim(s) ==
  IF s = <<>> THEN s
  ELSE IF Head(s) = " " THEN Trim(Tail(s))
  ELSE IF s[Len(s)] = " " THEN Trim(SubSeq(s, 1, Len(s) - 1))
  ELSE s

\* req && req.trim().length > 0, of a string
Kept(req) ==
  /\ Truthy(req)
  /\ IF "c" \in DOMAIN req THEN Len(Trim(req.c)) > 0 ELSE TRUE

\* a mutant of the deduplication: the list is kept as it is
KeepAll(list) == list

RECURSIVE Dedupe(_)
\* [...new Set(list)]: the first occurrence of every value, in order
Dedupe(list) ==
  IF list = <<>> THEN <<>>
  ELSE LET front == Dedupe(SubSeq(list, 1, Len(list) - 1))
           last == list[Len(list)]
       IN IF \E i \in 1..Len(front) : front[i] = last THEN front ELSE Append(front, last)

RECURSIVE CollectFirst(_, _)
\* a mutant of the pushes: only the first source that has the list is taken
CollectFirst(sources, key) ==
  IF sources = <<>> THEN <<>>
  ELSE IF Truthy(Prop(Head(sources), key)) /\ Prop(Head(sources), key).v # <<>>
  THEN Prop(Head(sources), key).v
  ELSE CollectFirst(Tail(sources), key)

RECURSIVE Collect(_, _)
\* the pushes of the loop over the sources, for one key:
\* if (source[key]) merged[key].push(...source[key])
Collect(sources, key) ==
  IF sources = <<>> THEN <<>>
  ELSE LET last == sources[Len(sources)] IN
       Collect(SubSeq(sources, 1, Len(sources) - 1), key)
         \o (IF Truthy(Prop(last, key)) THEN Prop(last, key).v ELSE <<>>)

\* what gatherRequirements ends with when reading a property of a source
\* that is undefined throws
Thrown == [t |-> "thrown"]

\* mergeRequirements(sources), called at the clock reading time
MergeRequirements(sources, time) ==
  IF \E i \in 1..Len(sources) : sources[i] \in {Undefined, Null} THEN Thrown
  ELSE LET List(key) == Arr(SelectSeq(Dedupe(Collect(sources, key)), Kept)) IN
       Obj([sources |-> Arr(SelectSeq([i \in 1..Len(sources) |-> Prop(sources[i], "source")],
                                      Truthy)),
            lastUpdated |-> Num(time),
            functional |-> List("functional"),
            businessRules |-> List("businessRules"),
            userWorkflows |-> List("userWorkflows"),
            performance |-> List("performance"),
            accessibility |-> List("accessibility")])

\* requirement strings
ReqMobile == Chars(<<"m", "o", "b", "i", "l", "e">>)
ReqTrades == Chars(<<"t", "r", "a", "d", "e", "s">>)
ReqBlank == Chars(<<" ">>)
ReqEmpty == Chars(<<>>)

\* a mutant of the catch block of an extractor: nothing is returned
GetNoAnalysis(source) == Undefined

\* what the catch block of an extractor returns
CatchAnalysis(source) == GetEmptyAnalysis(source)

\* loadExistingRequirements(pageName); readOk: readFile and JSON.parse
\* succeed when the file exists.  The mirror saveTestCases writes always has
\* a requirements object, which is spread over { source }
LoadExistingRequirements(files, pageName, readOk) ==
  IF Exists(files, RequirementsPath(pageName)) /\ readOk
  THEN LET existing == files[RequirementsPath(pageName)] IN
       Obj(existing.requirements @@ [source |-> Text("existing-requirements")])
  ELSE CatchAnalysis(Text("existing-requirements"))

(* ------------------------ AdaptivePatternLearner ----------------------- *)

PatternCategories ==
  <<"calculations", "validations", "businessRules", "apiPatterns", "dataTransformations">>

\* one rule of a category
Rule(name, regex) ==
  Obj([name |-> Text(name), patterns |-> Arr(<<>>), regex |-> Text(regex),
       confidence |-> Text("low"), context |-> Text("")])

\* getFallbackPatterns()
GetFallbackPatterns ==
  Obj([calculations |-> Arr(<<Rule("Generic Calculations", "(?i)(calculate|compute|total|sum)")>>),
       validations |-> Arr(<<Rule("Generic Validation", "(?i)(validate|check|verify)")>>),
       businessRules |-> Arr(<<>>),
       apiPatterns |-> Arr(<<Rule("Generic API", "(?i)(api|fetch|get|post)")>>),
       dataTransformations |->
         Arr(<<Rule("Generic Transformations", "(?i)(format|parse|convert)")>>)])

\* lines 343-355: the reply is trimmed, a ```json fence is removed, and the
\* text is parsed; when any of these throws, the fallback patterns
ParsePatterns(response) ==
  IF response.t = "string" /\ response.fence \in {"none", "json"}
     /\ response.json \notin {Unparseable, EmptyBody}
  THEN response.json
  ELSE GetFallbackPatterns

\* Object.values(x)
ObjectValues(x) ==
  CASE x.t = "object" -> {x.v[k] : k \in DOMAIN x.v}
    [] x.t = "array" -> {x.v[i] : i \in 1..Len(x.v)}
    [] OTHER -> {}

\* reading x.length throws: x is null or undefined
NoLength(x) == x \in {Null, Undefined}

\* x.length of an array or a string of characters
LengthOf(x) ==
  IF x.t = "array" THEN Len(x.v) ELSE IF x.t = "string" /\ "c" \in DOMAIN x THEN Len(x.c) ELSE 0

\* the sum of the lengths of the members of patterns, each member counted
\* (two equal members are two values of Object.values)
TotalPatterns(patterns) ==
  IF patterns.t = "object"
  THEN LET keys == DOMAIN patterns.v
           Count[K \in SUBSET keys] ==
             IF K = {} THEN 0
             ELSE LET k == CHOOSE y \in K : TRUE IN
                  LengthOf(patterns.v[k]) + Count[K \ {k}]
       IN Count[keys]
  ELSE IF patterns.t = "array"
  THEN LET Count[i \in 0..Len(patterns.v)] ==
             IF i = 0 THEN 0 ELSE LengthOf(patterns.v[i]) + Count[i - 1]
       IN Count[Len(patterns.v)]
  ELSE 0

\* saveLearnedPatterns throws before it writes: Object.values(patterns)
\* throws, or the reduce reads the length of null or undefined
SaveThrows(patterns) ==
  \/ patterns \in {Null, Undefined}
  \/ \E x \in ObjectValues(patterns) : NoLength(x)

\* the characters of dependency names, in the order of their code units
Alphabet ==
  <<"-", "a", "b", "c", "d", "e", "f", "g", "h", "i", "j", "k", "l", "m", "n", "o", "p",
    "q", "r", "s", "t", "u", "v", "w", "x", "y", "z">>

CodeUnit(ch) == CHOOSE i \in 1..Len(Alphabet) : Alphabet[i] = ch

RECURSIVE Before(_, _)
\* a sorts before b in Array.prototype.sort without callback
Before(a, b) ==
  IF a = <<>> THEN b # <<>>
  ELSE IF b = <<>> THEN FALSE
  ELSE IF Head(a) # Head(b) THEN CodeUnit(Head(a)) < CodeUnit(Head(b))
  ELSE Before(Tail(a), Tail(b))

RECURSIVE SortNames(_)
\* names.sort()
SortNames(names) ==
  IF names = <<>> THEN <<>>
  ELSE LET front == SortNames(SubSeq(names, 1, Len(names) - 1))
           last == names[Len(names)]
           ahead == Cardinality({i \in 1..Len(front) : ~Before(last, front[i])})
       IN SubSeq(front, 1, ahead) \o <<last>> \o SubSeq(front, ahead + 1, Len(front))

RECURSIVE Join(_)
\* names.join(',')
Join(names) ==
  IF names = <<>> THEN <<>>
  ELSE IF Len(names) = 1 THEN names[1]
  ELSE names[1] \o <<",">> \o Join(Tail(names))

\* the length of the fingerprint, in characters of base64
FingerprintLength == 20

\* getProjectFingerprint(): 'unknown' when package.json cannot be read,
\* otherwise the first FingerprintLength characters of the base64 text of
\* deps + '|' + devDeps, which stand one-to-one for the first
\* 3 * FingerprintLength / 4 characters of that text; readOk: readFile and
\* JSON.parse succeed when the file exists
GetProjectFingerprint(pkg, readOk) ==
  IF pkg = Missing \/ ~readOk THEN Text("unknown")
  ELSE LET text == Join(SortNames(pkg.dependencies)) \o <<"|">>
                     \o Join(SortNames(pkg.devDependencies))
           kept == (FingerprintLength \div 4) * 3
       IN [t |-> "string",
           base64 |-> IF Len(text) <= kept THEN text ELSE SubSeq(text, 1, kept)]

\* the object saveLearnedPatterns writes
PatternsData(patterns, fingerprint, time) ==
  [version |-> V100, lastLearned |-> time, projectFingerprint |-> fingerprint,
   patterns |-> patterns,
   metadata |-> [totalPatterns |-> TotalPatterns(patterns),
                 learningSource |-> "codebase-analysis", confidence |-> "claude-generated"]]

\* the three console.log lines after the save throw: a count is read from a
\* category that is missing or null
CountsThrow(patterns) ==
  \E k \in {"calculations", "validations", "businessRules"} : NoLength(Prop(patterns, k))

\* how a call of a method of the learner ended: it raised, or returned
Outcome(call, input, raised, returned, logged) ==
  [call |-> call, input |-> input, raised |-> raised, returned |-> returned,
   logged |-> logged]

\* loadLearnedPatterns(), as what it returns and what it logs; readOk: the
\* readFile and JSON.parse of the patterns file succeed when it exists
LoadOutcome(file, fingerprint, readOk) ==
  IF file = Missing \/ ~readOk THEN Outcome("load", readOk, FALSE, Null, FALSE)
  ELSE Outcome("load", readOk, FALSE, file.patterns, file.projectFingerprint # fingerprint)

\* the characters of the contents classified, with the 'i' flag applied
Fold(ch) ==
  CASE ch = "P" -> "p" [] ch = "N" -> "n" [] ch = "L" -> "l"
    [] OTHER -> ch

\* words of the expressions of rules
wPnl == <<"p", "n", "l">>
wFee == <<"f", "e", "e">>
wTax == <<"t", "a", "x">>

\* new RegExp(regex, 'gi') of the expression texts of the rules here: an
\* alternation of literal words, the empty expression of an undefined text,
\* or the SyntaxError of a text that is no expression ("(" is not closed,
\* "(?i)" is an invalid group)
Compile(regex) ==
  CASE regex = Text("(pnl|fee)") -> [ok |-> TRUE, words |-> <<wPnl, wFee>>]
    [] regex = Text("(fee)") -> [ok |-> TRUE, words |-> <<wFee>>]
    [] regex = Text("(tax)") -> [ok |-> TRUE, words |-> <<wTax>>]
    [] regex = Text("(profit|loss|pnl)") ->
         [ok |-> TRUE,
          words |-> <<<<"p", "r", "o", "f", "i", "t">>, <<"l", "o", "s", "s">>, wPnl>>]
    [] regex = Text("(trade|position)") ->
         [ok |-> TRUE,
          words |-> <<<<"t", "r", "a", "d", "e">>,
                      <<"p", "o", "s", "i", "t", "i", "o", "n">>>>]
    [] regex = Undefined -> [ok |-> TRUE, words |-> <<>>]
    [] OTHER -> [ok |-> FALSE]

RECURSIVE WordAt(_, _)
\* the substring the alternation matches at the start of s: that of its
\* first word that is there, letter case ignored; empty when none is
WordAt(s, words) ==
  IF words = <<>> THEN <<>>
  ELSE LET w == Head(words) IN
       IF Len(s) >= Len(w) /\ [i \in 1..Len(w) |-> Fold(s[i])] = w
       THEN SubSeq(s, 1, Len(w))
       ELSE WordAt(s, Tail(words))

RECURSIVE MatchAll(_, _)
\* content.match(regex) || [] of a global alternation: the matches from left
\* to right, each search starting where the match before ended
MatchAll(s, words) ==
  IF s = <<>> THEN <<>>
  ELSE LET m == WordAt(s, words) IN
       IF m # <<>> THEN <<Chars(m)>> \o MatchAll(SubSeq(s, Len(m) + 1, Len(s)), words)
       ELSE MatchAll(Tail(s), words)

\* content.match(regex) || []; the empty expression matches the empty
\* string at every position of the content and at its end
Matches(content, compiled) ==
  IF compiled.words = <<>> THEN [i \in 1..(Len(content) + 1) |-> Chars(<<>>)]
  ELSE MatchAll(content, compiled.words)

\* most examples an entry carries (matches.slice(0, 3))
MaxExamples == 3

\* matches.slice(0, 3)
Examples(matches) ==
  IF Len(matches) <= MaxExamples THEN matches ELSE SubSeq(matches, 1, MaxExamples)

\* the entry pushed for a rule with matches
MatchEntry(pattern, matches, filePath) ==
  [pattern |-> Prop(pattern, "name"), matches |-> Len(matches),
   confidence |-> Prop(pattern, "confidence"), file |-> filePath,
   examples |-> Examples(matches)]

RECURSIVE ApplyRulesUntilInvalid(_, _, _)
\* a mutant of the try block of a rule: the first rule whose expression
\* does not compile ends the loop over the category
ApplyRulesUntilInvalid(patterns, content, filePath) ==
  IF patterns = <<>> THEN <<>>
  ELSE LET pattern == Head(patterns) IN
       IF pattern \in {Null, Undefined} \/ ~Compile(Prop(pattern, "regex")).ok THEN <<>>
       ELSE LET matches == Matches(content, Compile(Prop(pattern, "regex"))) IN
            (IF Len(matches) > 0 THEN <<MatchEntry(pattern, matches, filePath)>> ELSE <<>>)
              \o ApplyRulesUntilInvalid(Tail(patterns), content, filePath)

RECURSIVE ApplyRules(_, _, _)
\* the loop over the rules of one category, lines 442-459: a rule that is
\* null (reading its regex throws) or whose expression does not compile is
\* skipped by the catch block
ApplyRules(patterns, content, filePath) ==
  IF patterns = <<>> THEN <<>>
  ELSE LET pattern == Head(patterns)
           rest == ApplyRules(Tail(patterns), content, filePath)
       IN IF pattern \in {Null, Undefined} \/ ~Compile(Prop(pattern, "regex")).ok THEN rest
          ELSE LET matches == Matches(content, Compile(Prop(pattern, "regex"))) IN
               (IF Len(matches) > 0 THEN <<MatchEntry(pattern, matches, filePath)>> ELSE <<>>)
                 \o rest

\* what `for (const pattern of patterns)` iterates over: the elements of a
\* list, the characters of a string
Iterable(patterns) == patterns.t \in {"array", "string"}

ElementsOf(patterns) ==
  IF patterns.t = "array" THEN patterns.v
  ELSE [i \in 1..Len(patterns.c) |-> Chars(<<patterns.c[i]>>)]

\* Object.entries(x): the keys of an object, the indices of a list, each
\* with its value
EntryKeys(x) ==
  CASE x.t = "object" -> DOMAIN x.v
    [] x.t = "array" -> {Digit[i] : i \in 1..Len(x.v)}
    [] OTHER -> {}

EntryValue(x, key) ==
  IF x.t = "object" THEN x.v[key]
  ELSE x.v[CHOOSE i \in 1..Len(x.v) : Digit[i] = key]

\* getFallbackAnalysis()
GetFallbackAnalysis ==
  [calculations |-> <<>>, validations |-> <<>>, businessRules |-> <<>>,
   apiPatterns |-> <<>>, dataTransformations |-> <<>>]

\* analyzeCodeWithLearnedPatterns(content, filePath) from line 426 on, with
\* this.learnedPatterns as given: the analysis returned, or Thrown when the
\* members of a category cannot be iterated over
AnalyzeCode(learnedPatterns, content, filePath) ==
  IF ~Truthy(learnedPatterns) THEN GetFallbackAnalysis
  ELSE IF \E k \in EntryKeys(learnedPatterns) : ~Iterable(EntryValue(learnedPatterns, k))
  THEN Thrown
  ELSE [category \in DOMAIN GetFallbackAnalysis \cup EntryKeys(learnedPatterns) |->
          IF category \in EntryKeys(learnedPatterns)
          THEN ApplyRules(ElementsOf(EntryValue(learnedPatterns, category)), content, filePath)
          ELSE <<>>]

(* -------------------------------- state -------------------------------- *)

VARIABLES
  fs,           \* the files on disk: path -> content
  pc,           \* where the run of updateTestCases is
  run,          \* the locals of the run
  error,        \* what the run that ended raised ("none": nothing)
  now,          \* the clock
  runs,         \* runs started so far
  pre,          \* fs when the run started
  prev,         \* how the run before this one ended
  oracleCalls,  \* calls of claudeAnalysisFunction in the run
  produced,     \* the versions of the runs that completed, in order
  history,      \* what the last call of getTestCaseHistory returned
  gather,       \* the locals of the call of gatherRequirements
  merged,       \* what the call of gatherRequirements returned
  patternsFile, \* learned-patterns.json: its content, when it exists
  packageJson,  \* package.json of the project: its content, when it exists
  learnedPatterns,  \* this.learnedPatterns of the AdaptivePatternLearner
  learned,      \* how the last call of a method of the learner ended
  project,      \* what getProjectFingerprint read of package.json when the
                \* patterns file was written, and when it was last loaded
  peer          \* the run of updateTestCases that goes on beside the one of
                \* pc and run, while it waits at one of its await points

\* the variables of RequirementsDiscovery
discoveryVars == <<gather, merged>>

\* the variables of the runs of updateTestCases, fs apart
runVars == <<pc, run, error, now, runs, pre, prev, oracleCalls, produced, peer>>

\* the variables of AdaptivePatternLearner
learnerVars == <<patternsFile, packageJson, learnedPatterns, learned, project>>

\* the variables a step of a run of updateTestCases leaves alone
nonStore == <<history, discoveryVars, learnerVars, peer>>

vars == <<fs, pc, run, error, now, runs, pre, prev, oracleCalls, produced, nonStore>>

NoPrev ==
  [completed |-> FALSE, echo |-> FALSE, newRequirements |-> Undefined, newTestCases |-> 0]

NoRun ==
  [pageName |-> <<>>, newRequirements |-> Undefined, existing |-> Undefined,
   currentVersion |-> <<>>, reply |-> Undefined, result |-> Undefined]

\* peer when no second run has been started
NoPeer ==
  [pc |-> "idle", run |-> NoRun, error |-> "none", pre |-> <<>>, prev |-> NoPrev,
   oracleCalls |-> 0]

\* history before the first call of getTestCaseHistory
NoHistory == [called |-> FALSE, pageName |-> <<>>, readOk |-> TRUE, returned |-> <<>>]

\* gather before the first call of gatherRequirements
NoGather == [pageName |-> <<>>, sources |-> <<>>, failed |-> {}, inOrder |-> TRUE]

\* learned before the first call of a method of the learner
NoOutcome == [call |-> "none"]

\* what a call of getProjectFingerprint read: the content of package.json,
\* and whether the read succeeded
ReadOf(pkg, readOk) == [pkg |-> pkg, ok |-> readOk /\ pkg # Missing]

\* project before the patterns file is written or loaded
NoProject == [learnt |-> ReadOf(Missing, FALSE), loaded |-> ReadOf(Missing, FALSE)]

\* the learner when it is constructed, in a project without package.json,
\* before anything is learned
NoLearner ==
  /\ patternsFile = Missing
  /\ packageJson = Missing
  /\ learnedPatterns = Null
  /\ learned = NoOutcome
  /\ project = NoProject

\* no call of getTestCaseHistory or gatherRequirements has been made
NoCalls ==
  /\ history = NoHistory
  /\ gather = NoGather
  /\ merged = Undefined
  /\ NoLearner

Init ==
  /\ fs = <<>>
  /\ pc = "idle"
  /\ run = NoRun
  /\ error = "none"
  /\ now = 0
  /\ runs = 0
  /\ pre = <<>>
  /\ prev = NoPrev
  /\ oracleCalls = 0
  /\ produced = <<>>
  /\ peer = NoPeer
  /\ NoCalls

(* ------------------------------- actions ------------------------------- *)

\* updateTestCases up to the backup: initialize, loadExistingTestCases (the
\* read of an existing current document may fail), getNextVersion
StartRun(pageName, newRequirements, readOk) ==
  /\ pc \in {"idle", "done", "failed"}
  /\ runs < MaxRuns
  /\ readOk \/ Exists(fs, CurrentPath(pageName))
  /\ LET existing == LoadExistingTestCases(fs, pageName, readOk, now + 1) IN
     run' = [NoRun EXCEPT !.pageName = pageName, !.newRequirements = newRequirements,
                          !.existing = existing,
                          !.currentVersion = GetNextVersion(existing.version)]
  /\ pc' = "backup"
  /\ error' = "none"
  /\ now' = now + 1
  /\ runs' = runs + 1
  /\ pre' = fs
  /\ prev' = IF pc = "done"
             THEN [completed |-> TRUE, echo |-> run.reply = Echo(run.existing),
                   newRequirements |-> run.newRequirements,
                   newTestCases |-> run.result.metadata.newTestCases]
             ELSE NoPrev
  /\ oracleCalls' = 0
  /\ UNCHANGED <<fs, produced>>
  /\ UNCHANGED nonStore

\* a mutant of the backup step: the backup is written after the save, that
\* is, not here
CreateBackupSkipped ==
  /\ pc = "backup"
  /\ pc' = "oracle"
  /\ UNCHANGED <<fs, run, error, now, runs, pre, prev, oracleCalls, produced>>
  /\ UNCHANGED nonStore

\* a mutant of the backup step: a failed backup write is caught and logged,
\* and the run goes on
CreateBackupSwallowed ==
  /\ pc = "backup"
  /\ \/ /\ Len(run.existing.testCases) > 0
        /\ fs' = WriteFile(fs, BackupPath(run.pageName, now), run.existing)
        /\ error' = error
     \/ /\ Len(run.existing.testCases) > 0
        /\ fs' = fs
        /\ error' = "backup"
     \/ /\ Len(run.existing.testCases) = 0
        /\ fs' = fs
        /\ error' = error
  /\ pc' = "oracle"
  /\ UNCHANGED <<run, now, runs, pre, prev, oracleCalls, produced>>
  /\ UNCHANGED nonStore

\* lines 36-39: createBackup when there are existing test cases; its write
\* succeeds, or fails and the error ends the run
CreateBackup ==
  /\ pc = "backup"
  /\ \/ /\ Len(run.existing.testCases) > 0
        /\ fs' = WriteFile(fs, BackupPath(run.pageName, now), run.existing)
        /\ pc' = "oracle"
        /\ error' = error
     \/ /\ Len(run.existing.testCases) > 0
        /\ fs' = fs
        /\ pc' = "failed"
        /\ error' = "backup"
     \/ /\ Len(run.existing.testCases) = 0
        /\ fs' = fs
        /\ pc' = "oracle"
        /\ error' = error
  /\ UNCHANGED <<run, now, runs, pre, prev, oracleCalls, produced>>
  /\ UNCHANGED nonStore

\* lines 41-68: the oracle is called and answers; the result is built
OracleReplies(reply) ==
  /\ pc = "oracle"
  /\ oracleCalls' = oracleCalls + 1
  /\ LET parsed == ParseAndValidateTestCases(reply, run.existing) IN
     IF parsed.throws
     THEN /\ run' = [run EXCEPT !.reply = reply]
          /\ pc' = "failed"
          /\ error' = "parse"
     ELSE /\ run' = [run EXCEPT !.reply = reply,
                                !.result = BuildResult(run.pageName, run.newRequirements,
                                                       run.existing, run.currentVersion,
                                                       parsed.value, now)]
          /\ pc' = "save-current"
          /\ error' = error
  /\ UNCHANGED <<fs, now, runs, pre, prev, produced>>
  /\ UNCHANGED nonStore

\* the oracle that echoes the existing test cases of the prompt
OracleEchoes ==
  /\ pc = "oracle"
  /\ OracleReplies(Echo(run.existing))

\* a mutant of the failing oracle call: the error is caught and the run goes
\* on with the fallback of an unreadable reply
OracleRaisesSwallowed ==
  /\ pc = "oracle"
  /\ oracleCalls' = oracleCalls + 1
  /\ run' = [run EXCEPT !.result = BuildResult(run.pageName, run.newRequirements,
                                               run.existing, run.currentVersion,
                                               Fallback(run.existing), now)]
  /\ pc' = "save-current"
  /\ error' = "oracle"
  /\ UNCHANGED <<fs, now, runs, pre, prev, produced>>
  /\ UNCHANGED nonStore


\* line 42: the oracle is called and raises (or the caller's timeout does)
OracleRaises ==
  /\ pc = "oracle"
  /\ oracleCalls' = oracleCalls + 1
  /\ pc' = "failed"
  /\ error' = "oracle"
  /\ UNCHANGED <<fs, run, now, runs, pre, prev, produced>>
  /\ UNCHANGED nonStore

\* one write of saveTestCases, which succeeds or fails
SaveStep(at, path, content, next) ==
  /\ pc = at
  /\ \/ /\ fs' = WriteFile(fs, path, content)
        /\ pc' = next
        /\ error' = error
        /\ produced' = IF next = "done" THEN Append(produced, run.result.version)
                       ELSE produced
     \/ /\ fs' = fs
        /\ pc' = "failed"
        /\ error' = "write"
        /\ produced' = produced
  /\ UNCHANGED <<run, now, runs, pre, prev, oracleCalls>>
  /\ UNCHANGED nonStore

\* lines 218-219: the current document
SaveCurrent ==
  SaveStep("save-current", CurrentPath(run.pageName), run.result, "save-version")

\* lines 222-223: the version snapshot
SaveVersion ==
  SaveStep("save-version", VersionPath(run.pageName, run.result.version), run.result,
           "save-requirements")

\* lines 226-231: the requirements mirror; updateTestCases then returns
SaveRequirements ==
  SaveStep("save-requirements", RequirementsPath(run.pageName),
           [version |-> run.result.version, lastUpdated |-> run.result.lastUpdated,
            requirements |-> run.result.requirements],
           "done")

Next ==
  \/ \E pageName \in Pages, newRequirements \in Requirements, readOk \in BOOLEAN :
       StartRun(pageName, newRequirements, readOk)
  \/ CreateBackup
  \/ \E reply \in ListReplies \cup OddListReplies \cup NonListReplies : OracleReplies(reply)
  \/ OracleEchoes
  \/ OracleRaises
  \/ SaveCurrent
  \/ SaveVersion
  \/ SaveRequirements

Spec == Init /\ [][Next]_vars

(* ------------------- a store that holds a first version ---------------- *)

\* the locals of a first run for dash, on an empty store, whose oracle
\* replied with the one new case, when the run has completed
SeedRun ==
  LET existing == LoadExistingTestCases(<<>>, dash, TRUE, 1)
      reply == ReplyText("none", Arr(<<CaseNew>>))
      newRequirements == CHOOSE r \in Requirements : TRUE
  IN [pageName |-> dash, newRequirements |-> newRequirements, existing |-> existing,
      currentVersion |-> GetNextVersion(existing.version), reply |-> reply,
      result |-> BuildResult(dash, newRequirements, existing,
                             GetNextVersion(existing.version),
                             ParseAndValidateTestCases(reply, existing).value, 1)]

\* the files that run has written
SeedFiles ==
  LET result == SeedRun.result IN
  WriteFile(WriteFile(WriteFile(<<>>, CurrentPath(dash), result),
                      VersionPath(dash, result.version), result),
            RequirementsPath(dash),
            [version |-> result.version, lastUpdated |-> result.lastUpdated,
             requirements |-> result.requirements])

\* the state Spec is in when that run has completed (SeedReached), with the
\* count of runs started again from 0
InitSeeded ==
  /\ fs = SeedFiles
  /\ pc = "done"
  /\ run = SeedRun
  /\ error = "none"
  /\ now = 1
  /\ runs = 0
  /\ pre = <<>>
  /\ prev = NoPrev
  /\ oracleCalls = 1
  /\ produced = <<SeedRun.result.version>>
  /\ peer = NoPeer
  /\ NoCalls

\* runs of updateTestCases on a store that holds a first version
SpecSeeded == InitSeeded /\ [][Next]_vars

\* Spec reaches the state SpecSeeded starts in
SeedReached ==
  /\ fs = SeedFiles /\ pc = "done" /\ run = SeedRun /\ error = "none" /\ now = 1
  /\ runs = 1 /\ pre = <<>> /\ prev = NoPrev /\ oracleCalls = 1
  /\ produced = <<SeedRun.result.version>>

(* ---------------- getTestCaseHistory on stores with history ------------ *)

\* most snapshots in a store getTestCaseHistory is called on
MaxSnapshots == 3

\* a subject whose name begins with the name of dash followed by "-v"
dashV2 == <<"d", "a", "s", "h", "-", "v", "2">>

\* versions runs produce, among them 1.0.9 and 1.0.10
HistoryVersions ==
  {V100, <<"1", ".", "0", ".", "2">>, <<"1", ".", "0", ".", "9">>,
   <<"1", ".", "0", ".", "1", "0">>}

\* the document of the run of updateTestCases for pageName that produced
\* version, when the oracle replied with the one new case; the clock reading
\* of the run is the number of the run
DocumentOf(pageName, version) ==
  LET time == VersionParts(version)[3] + 1
      existing == EmptyStructure(pageName, time)
      newRequirements == CHOOSE r \in Requirements : TRUE
  IN BuildResult(pageName, newRequirements, existing, version,
                 ParseAndValidateTestCases(ReplyText("none", Arr(<<CaseNew>>)), existing).value,
                 time)

\* the snapshots a store may hold: a set of (subject, version) pairs; every
\* such set is left by runs whose other snapshot writes failed
SnapshotSets ==
  {S \in SUBSET ({dash, dashV2} \X HistoryVersions) : Cardinality(S) <= MaxSnapshots}

\* the files of a store with the snapshots S: each snapshot, and for each
\* subject the current document, which is that of its latest version
StoreOf(S) ==
  LET Latest(pageName) ==
        CHOOSE v \in {x[2] : x \in {y \in S : y[1] = pageName}} :
          \A w \in {x[2] : x \in {y \in S : y[1] = pageName}} : CompareVersions(w, v) <= 0
      snapshots == {VersionPath(x[1], x[2]) : x \in S}
      currents == {CurrentPath(x[1]) : x \in S}
      Subject(path) == CHOOSE x \in S : path \in {VersionPath(x[1], x[2]), CurrentPath(x[1])}
  IN [path \in snapshots \cup currents |->
        IF path \in snapshots
        THEN DocumentOf(Subject(path)[1], Subject(path)[2])
        ELSE DocumentOf(Subject(path)[1], Latest(Subject(path)[1]))]

\* the orders readdir may list a set of names in
Listings(names) ==
  {l \in [1..Cardinality(names) -> names] : \A i, j \in DOMAIN l : l[i] = l[j] => i = j}

InitHistory ==
  /\ \E S \in SnapshotSets : fs = StoreOf(S)
  /\ pc = "idle"
  /\ run = NoRun
  /\ error = "none"
  /\ now = 0
  /\ runs = 0
  /\ pre = <<>>
  /\ prev = NoPrev
  /\ oracleCalls = 0
  /\ produced = <<>>
  /\ peer = NoPeer
  /\ NoCalls

\* a call of getTestCaseHistory(pageName) between runs
GetTestCaseHistory(pageName, listing, readOk) ==
  /\ pc \in {"idle", "done", "failed"}
  /\ history' = [called |-> TRUE, pageName |-> pageName, readOk |-> readOk,
                 returned |-> HistoryOf(fs, pageName, listing, readOk)]
  /\ UNCHANGED <<fs, runVars, discoveryVars, learnerVars>>

NextHistory ==
  \E pageName \in {dash, dashV2}, listing \in Listings(VersionsDir(fs)), readOk \in BOOLEAN :
    GetTestCaseHistory(pageName, listing, readOk)

SpecHistory == InitHistory /\ [][NextHistory]_vars

(* --------------------------- gatherRequirements ------------------------ *)

\* the result of an extractor that has not returned yet
Pending == [t |-> "pending"]

\* lines 30-39: every extractor has returned; mergeRequirements, the cache
\* and the return
Merge ==
  /\ gather.pageName # <<>>
  /\ merged = Undefined
  /\ \A i \in 1..Len(gather.sources) : gather.sources[i] # Pending
  /\ merged' = MergeRequirements(gather.sources, now)
  /\ UNCHANGED <<fs, runVars, history, gather, learnerVars>>

\* lines 19-29: gatherRequirements(pageName) starts its five extractors
GatherRequirements(pageName) ==
  /\ pc \in {"idle", "done", "failed"}
  /\ gather.pageName = <<>> \/ merged # Undefined
  /\ gather' = [pageName |-> pageName, sources |-> [i \in 1..Len(SourceNames) |-> Pending],
                failed |-> {}, inOrder |-> TRUE]
  /\ merged' = Undefined
  /\ UNCHANGED <<fs, runVars, history, learnerVars>>

\* a mutant of the Promise.all: the partials are collected as the
\* extractors return, each after those that returned before it
ReturnedAsCompleted(i, partial, ok) ==
  /\ gather.pageName # <<>>
  /\ merged = Undefined
  /\ \E n \in 1..Len(gather.sources) : gather.sources[n] = Pending
  /\ \A n \in 1..Len(gather.sources) :
       gather.sources[n] = Pending \/ Prop(gather.sources[n], "source") # SourceNames[i]
  /\ LET n == CHOOSE m \in 1..Len(gather.sources) :
                 /\ gather.sources[m] = Pending
                 /\ \A j \in 1..(m - 1) : gather.sources[j] # Pending
     IN gather' = [gather EXCEPT !.sources[n] = partial,
                                 !.failed = IF ok THEN @ ELSE @ \cup {i},
                                 !.inOrder = @ /\ n = i]
  /\ UNCHANGED <<fs, runVars, history, merged, learnerVars>>

\* the extractor at position i of the Promise.all returns partial; ok: from
\* its try block, otherwise from its catch block.  Promise.all keeps the
\* partial at position i, whichever extractors returned before (inOrder:
\* the extractors have returned in the order of their positions)
Returned(i, partial, ok) ==
  /\ gather.pageName # <<>>
  /\ merged = Undefined
  /\ gather.sources[i] = Pending
  /\ gather' = [gather EXCEPT !.sources[i] = partial,
                              !.failed = IF ok THEN @ ELSE @ \cup {i},
                              !.inOrder = @ /\ \A j \in 1..(i - 1) : gather.sources[j] # Pending]
  /\ UNCHANGED <<fs, runVars, history, merged, learnerVars>>

\* an analysis with entries in two of its lists
Analysis(source, functional, businessRules) ==
  Obj([GetEmptyAnalysis(source).v EXCEPT !.functional = Arr(functional),
                                         !.businessRules = Arr(businessRules)])

\* what the extractors that read the project's files find in them
CodeFindings ==
  {GetEmptyAnalysis(SourceNames[1]), Analysis(SourceNames[1], <<ReqMobile>>, <<ReqTrades>>)}
DocFindings ==
  {GetEmptyAnalysis(SourceNames[2]), Analysis(SourceNames[2], <<ReqTrades, ReqMobile>>, <<>>)}
InteractionFindings ==
  {GetEmptyAnalysis(SourceNames[4]),
   Obj([GetEmptyAnalysis(SourceNames[4]).v EXCEPT !.userWorkflows = Arr(<<ReqTrades>>)])}
TestHistoryFindings ==
  {GetEmptyAnalysis(SourceNames[5]), Analysis(SourceNames[5], <<ReqMobile>>, <<ReqMobile>>)}

\* analyzeCodeStructure returns its analysis, or a read fails
AnalyzeCodeStructure ==
  \/ \E found \in CodeFindings : Returned(1, found, TRUE)
  \/ Returned(1, CatchAnalysis(SourceNames[1]), FALSE)

\* parseDocumentation
ParseDocumentation ==
  \/ \E found \in DocFindings : Returned(2, found, TRUE)
  \/ Returned(2, CatchAnalysis(SourceNames[2]), FALSE)

\* loadExistingRequirements: the mirror is read, or is missing or unreadable
LoadExisting ==
  \E readOk \in BOOLEAN :
    /\ readOk \/ Exists(fs, RequirementsPath(gather.pageName))
    /\ Returned(3, LoadExistingRequirements(fs, gather.pageName, readOk),
                readOk /\ Exists(fs, RequirementsPath(gather.pageName)))

\* analyzeUserInteractions
AnalyzeUserInteractions ==
  \/ \E found \in InteractionFindings : Returned(4, found, TRUE)
  \/ Returned(4, CatchAnalysis(SourceNames[4]), FALSE)

\* inferFromTestHistory
InferFromTestHistory ==
  \/ \E found \in TestHistoryFindings : Returned(5, found, TRUE)
  \/ Returned(5, CatchAnalysis(SourceNames[5]), FALSE)

(* ------------------- mergeRequirements on lists of partials ------------ *)

\* most partials in a list mergeRequirements is called on
MaxPartials == 3

\* partials: with lists that share entries, with an entry twice, with blank
\* and empty entries, empty, and one without source and without most lists
MergePool ==
  {Obj([GetEmptyAnalysis(SourceNames[1]).v EXCEPT
          !.functional = Arr(<<ReqMobile, ReqTrades>>), !.businessRules = Arr(<<ReqTrades>>)]),
   Obj([GetEmptyAnalysis(SourceNames[2]).v EXCEPT
          !.functional = Arr(<<ReqTrades, ReqMobile, ReqTrades>>)]),
   Obj([GetEmptyAnalysis(SourceNames[3]).v EXCEPT
          !.functional = Arr(<<ReqMobile, ReqBlank, ReqEmpty>>)]),
   GetEmptyAnalysis(SourceNames[5]),
   Obj([functional |-> Arr(<<ReqTrades>>)])}

InitMerge ==
  /\ fs = <<>>
  /\ pc = "idle"
  /\ run = NoRun
  /\ error = "none"
  /\ now = 0
  /\ runs = 0
  /\ pre = <<>>
  /\ prev = NoPrev
  /\ oracleCalls = 0
  /\ produced = <<>>
  /\ peer = NoPeer
  /\ history = NoHistory
  /\ NoLearner
  /\ \E k \in 0..MaxPartials : \E sources \in [1..k -> MergePool] :
       gather = [pageName |-> dash, sources |-> sources, failed |-> {}, inOrder |-> TRUE]
  /\ merged = Undefined

NextMerge == Merge

SpecMerge == InitMerge /\ [][NextMerge]_vars

(* ------------------ gatherRequirements on stores of runs --------------- *)

InitDiscovery ==
  /\ fs \in {<<>>, SeedFiles}
  /\ pc = "idle"
  /\ run = NoRun
  /\ error = "none"
  /\ now = 0
  /\ runs = 0
  /\ pre = <<>>
  /\ prev = NoPrev
  /\ oracleCalls = 0
  /\ produced = <<>>
  /\ peer = NoPeer
  /\ NoCalls

NextDiscovery ==
  \/ \E pageName \in Pages : GatherRequirements(pageName)
  \/ AnalyzeCodeStructure
  \/ ParseDocumentation
  \/ LoadExisting
  \/ AnalyzeUserInteractions
  \/ InferFromTestHistory
  \/ Merge

SpecDiscovery == InitDiscovery /\ [][NextDiscovery]_vars

(* ------------- generateTestCases: gather, then updateTestCases --------- *)

\* step 1 of generateTestCases (part_009): the requirements are gathered
\* when no run is going on and the record gathered before was used
GenerateGather(pageName) ==
  /\ runs < MaxRuns
  /\ gather.pageName = <<>> \/ run.newRequirements = merged
  /\ GatherRequirements(pageName)

\* step 2 of generateTestCases: updateTestCases with the gathered record
GenerateUpdate(readOk) ==
  /\ merged \notin {Undefined, Thrown}
  /\ run.newRequirements # merged
  /\ StartRun(gather.pageName, merged, readOk)

NextGenerate ==
  \/ \E pageName \in Pages : GenerateGather(pageName)
  \/ AnalyzeCodeStructure
  \/ ParseDocumentation
  \/ LoadExisting
  \/ AnalyzeUserInteractions
  \/ InferFromTestHistory
  \/ Merge
  \/ \E readOk \in BOOLEAN : GenerateUpdate(readOk)
  \/ CreateBackup
  \/ OracleReplies(ReplyText("none", Arr(<<CaseNew>>)))
  \/ OracleRaises
  \/ SaveCurrent
  \/ SaveVersion
  \/ SaveRequirements

SpecGenerate == Init /\ [][NextGenerate]_vars

(* ----------------------- the learner and its cache --------------------- *)

\* names of dependencies
depReact == <<"r", "e", "a", "c", "t">>
depNext == <<"n", "e", "x", "t">>
depJest == <<"j", "e", "s", "t">>
depVite == <<"v", "i", "t", "e">>

\* the package.json files of the project: none, and objects that declare
\* dependencies
PackageJsons ==
  {Missing,
   [dependencies |-> <<depReact, depNext>>, devDependencies |-> <<depJest>>],
   [dependencies |-> <<depNext, depReact>>, devDependencies |-> <<depJest>>],
   [dependencies |-> <<depReact>>, devDependencies |-> <<>>],
   [dependencies |-> <<depReact, depNext>>, devDependencies |-> <<depJest, depVite>>]}

\* a pattern set as the prompt asks for it
LearnedSet ==
  Obj([calculations |-> Arr(<<Rule("Profit Calculations", "(profit|loss|pnl)")>>),
       validations |-> Arr(<<>>),
       businessRules |-> Arr(<<Rule("Trading Rules", "(trade|position)")>>),
       apiPatterns |-> Arr(<<>>),
       dataTransformations |-> Arr(<<>>)])

\* the replies of the oracle to the learning prompt: the pattern set, bare
\* and fenced; text that does not parse; no text; and JSON texts that are
\* not a pattern set: null, [], an object without the categories, a set
\* with one category only, a set with a null category
LearnerReplies ==
  {ReplyText("none", LearnedSet), ReplyText("json", LearnedSet), ReplyText("bare", LearnedSet),
   ReplyText("none", Unparseable), ReplyText("none", EmptyBody), Undefined,
   ReplyText("none", Null), ReplyText("none", Arr(<<>>)),
   ReplyText("none", Obj([note |-> Chars(<<"n", "o", "n", "e">>)])),
   ReplyText("none", Obj([calculations |-> LearnedSet.v.calculations])),
   ReplyText("none", Obj([LearnedSet.v EXCEPT !.validations = Null]))}

\* learnBusinessLogicPatterns when the oracle replies; pkgOk: package.json
\* is read for the fingerprint; writeOk: mkdir and writeFile succeed
LearnBusinessLogicPatterns(reply, pkgOk, writeOk) ==
  LET patterns == ParsePatterns(reply)
      input == [oracle |-> "replied", reply |-> reply, writeOk |-> writeOk]
      saved == ~SaveThrows(patterns) /\ writeOk
  IN /\ patternsFile' = IF saved
                        THEN PatternsData(patterns, GetProjectFingerprint(packageJson, pkgOk), now)
                        ELSE patternsFile
     /\ learnedPatterns' = IF saved THEN patterns ELSE learnedPatterns
     /\ learned' = IF saved /\ ~CountsThrow(patterns)
                   THEN Outcome("learn", input, FALSE, patterns, FALSE)
                   ELSE Outcome("learn", input, TRUE, Undefined, FALSE)
     /\ project' = IF saved THEN [project EXCEPT !.learnt = ReadOf(packageJson, pkgOk)]
                   ELSE project
     /\ UNCHANGED <<fs, runVars, history, discoveryVars, packageJson>>

\* learnBusinessLogicPatterns when the call of the oracle raises
LearnOracleRaises ==
  /\ learned' = Outcome("learn", [oracle |-> "raised", reply |-> Undefined, writeOk |-> TRUE],
                        TRUE, Undefined, FALSE)
  /\ UNCHANGED <<fs, runVars, history, discoveryVars, patternsFile, packageJson,
                 learnedPatterns, project>>

\* loadLearnedPatterns(); readOk: the patterns file is read and parsed;
\* pkgOk: package.json is read for the fingerprint
LoadLearnedPatterns(readOk, pkgOk) ==
  /\ readOk \/ patternsFile # Missing
  /\ learned' = LoadOutcome(patternsFile, GetProjectFingerprint(packageJson, pkgOk), readOk)
  /\ learnedPatterns' = IF patternsFile = Missing \/ ~readOk THEN learnedPatterns
                        ELSE patternsFile.patterns
  /\ project' = IF patternsFile = Missing \/ ~readOk THEN project
                ELSE [project EXCEPT !.loaded = ReadOf(packageJson, pkgOk)]
  /\ UNCHANGED <<fs, runVars, history, discoveryVars, patternsFile, packageJson>>

\* the project's package.json is edited, created or removed
ProjectChanges(pkg) ==
  /\ pkg # packageJson
  /\ packageJson' = pkg
  /\ UNCHANGED <<fs, runVars, history, discoveryVars, patternsFile, learnedPatterns, learned,
                 project>>

InitLearner ==
  /\ fs = <<>>
  /\ pc = "idle"
  /\ run = NoRun
  /\ error = "none"
  /\ now = 0
  /\ runs = 0
  /\ pre = <<>>
  /\ prev = NoPrev
  /\ oracleCalls = 0
  /\ produced = <<>>
  /\ peer = NoPeer
  /\ history = NoHistory
  /\ gather = NoGather
  /\ merged = Undefined
  /\ patternsFile = Missing
  /\ packageJson \in PackageJsons
  /\ learnedPatterns = Null
  /\ learned = NoOutcome
  /\ project = NoProject

NextLearner ==
  \/ \E reply \in LearnerReplies, pkgOk \in BOOLEAN, writeOk \in BOOLEAN :
       LearnBusinessLogicPatterns(reply, pkgOk, writeOk)
  \/ LearnOracleRaises
  \/ \E readOk \in BOOLEAN, pkgOk \in BOOLEAN : LoadLearnedPatterns(readOk, pkgOk)
  \/ \E pkg \in PackageJsons : ProjectChanges(pkg)

SpecLearner == InitLearner /\ [][NextLearner]_vars

(* ------------------- classifying with learned patterns ----------------- *)

\* most pieces in a content that is classified
MaxPieces == 3

\* what the contents are made of: two words of the rules one after the
\* other, a word in upper case, and a blank
Pieces == {wPnl \o wFee, <<"P", "N", "L">>, <<" ">>}

RECURSIVE Concat(_)
Concat(pieces) == IF pieces = <<>> THEN <<>> ELSE Head(pieces) \o Concat(Tail(pieces))

Contents == {Concat(l) : l \in UNION {[1..k -> Pieces] : k \in 0..MaxPieces}}

\* a pattern set with a rule that does not compile between two that do, a
\* rule that matches nothing, and a second category whose one rule does not
\* compile
ClassifySet ==
  Obj([calculations |-> Arr(<<Rule("Amounts", "(pnl|fee)"), Rule("Open group", "("),
                              Rule("Fees", "(fee)"), Rule("Taxes", "(tax)")>>),
       validations |-> Arr(<<Rule("Inline flag", "(?i)(validate)")>>),
       businessRules |-> Arr(<<Rule("Fees", "(fee)")>>),
       apiPatterns |-> Arr(<<>>),
       dataTransformations |-> Arr(<<>>)])

\* the replies of the oracle to the learning prompt: the pattern set; text
\* that does not parse; a set with a null rule; a set with a category that
\* is a number, one that is a string, and a list
ClassifyReplies ==
  {ReplyText("none", ClassifySet),
   ReplyText("none", Unparseable),
   ReplyText("none", Obj([ClassifySet.v EXCEPT
                            !.calculations = Arr(<<Null, Rule("Fees", "(fee)")>>)])),
   ReplyText("none", Obj([ClassifySet.v EXCEPT !.validations = Num(5)])),
   ReplyText("none", Obj([ClassifySet.v EXCEPT !.validations = Chars(<<"n", "o">>)])),
   ReplyText("none", Arr(<<ClassifySet.v.calculations>>))}

\* the file a content is of
FilePaths == {Text("src/lib/trades.js")}

\* a learner is constructed (line 13): a new process of the tool
NewLearner ==
  /\ learnedPatterns # Null
  /\ learnedPatterns' = Null
  /\ learned' = NoOutcome
  /\ UNCHANGED <<fs, runVars, history, discoveryVars, patternsFile, packageJson, project>>

\* analyzeCodeWithLearnedPatterns(content, filePath); readOk, pkgOk: the
\* reads of loadLearnedPatterns, when the learner holds no patterns
AnalyzeCodeWithLearnedPatterns(content, filePath, readOk, pkgOk) ==
  /\ IF Truthy(learnedPatterns) THEN readOk /\ pkgOk ELSE readOk \/ patternsFile # Missing
  /\ LET load == LoadOutcome(patternsFile, GetProjectFingerprint(packageJson, pkgOk), readOk)
         patterns == IF Truthy(learnedPatterns) THEN learnedPatterns ELSE load.returned
         analysis == AnalyzeCode(patterns, content, filePath)
     IN /\ learnedPatterns' = patterns
        /\ learned' = Outcome("classify", [content |-> content, filePath |-> filePath],
                              analysis = Thrown,
                              IF analysis = Thrown THEN Undefined ELSE analysis,
                              ~Truthy(learnedPatterns) /\ load.logged)
        /\ project' = IF Truthy(learnedPatterns) \/ patternsFile = Missing \/ ~readOk
                      THEN project
                      ELSE [project EXCEPT !.loaded = ReadOf(packageJson, pkgOk)]
  /\ UNCHANGED <<fs, runVars, history, discoveryVars, patternsFile, packageJson>>

InitClassify ==
  /\ fs = <<>>
  /\ pc = "idle"
  /\ run = NoRun
  /\ error = "none"
  /\ now = 0
  /\ runs = 0
  /\ pre = <<>>
  /\ prev = NoPrev
  /\ oracleCalls = 0
  /\ produced = <<>>
  /\ peer = NoPeer
  /\ NoCalls

NextClassify ==
  \/ \E reply \in ClassifyReplies, writeOk \in BOOLEAN :
       LearnBusinessLogicPatterns(reply, TRUE, writeOk)
  \/ NewLearner
  \/ \E content \in Contents, filePath \in FilePaths, readOk \in BOOLEAN, pkgOk \in BOOLEAN :
       AnalyzeCodeWithLearnedPatterns(content, filePath, readOk, pkgOk)

SpecClassify == InitClassify /\ [][NextClassify]_vars

(* ------------- runs of updateTestCases for two subjects at once -------- *)

\* the subjects of the two runs
PairPages == {dash, dashV2}

\* a store in which a first run for each of the two subjects has written
\* the current document and the snapshot (the write of the mirror failed)
PairFiles == StoreOf({<<dash, V100>>, <<dashV2, V100>>})

\* the event loop resumes the run that waits, at its await point, and the
\* run of pc and run waits at its own
Switch ==
  /\ pc' = peer.pc
  /\ run' = peer.run
  /\ error' = peer.error
  /\ pre' = peer.pre
  /\ prev' = peer.prev
  /\ oracleCalls' = peer.oracleCalls
  /\ peer' = [pc |-> pc, run |-> run, error |-> error, pre |-> pre, prev |-> prev,
              oracleCalls |-> oracleCalls]
  /\ UNCHANGED <<fs, now, runs, produced, history, discoveryVars, learnerVars>>

\* updateTestCases is called for a subject no run beside it is for
StartBeside(pageName, newRequirements, readOk) ==
  /\ peer.run.pageName # pageName
  /\ StartRun(pageName, newRequirements, readOk)

InitPair ==
  /\ fs \in {<<>>, PairFiles}
  /\ pc = "idle"
  /\ run = NoRun
  /\ error = "none"
  /\ now = 0
  /\ runs = 0
  /\ pre = <<>>
  /\ prev = NoPrev
  /\ oracleCalls = 0
  /\ produced = <<>>
  /\ peer = NoPeer
  /\ NoCalls

NextPair ==
  \/ \E pageName \in PairPages, newRequirements \in Requirements, readOk \in BOOLEAN :
       StartBeside(pageName, newRequirements, readOk)
  \/ Switch
  \/ CreateBackup
  \/ \E reply \in {ReplyText("none", Arr(<<CaseNew>>)), ReplyText("none", Unparseable)} :
       OracleReplies(reply)
  \/ OracleRaises
  \/ SaveCurrent
  \/ SaveVersion
  \/ SaveRequirements

SpecPair == InitPair /\ [][NextPair]_vars

(* ------------------------------- claims -------------------------------- *)

\* the run has written its result as the subject's current document
Persisted ==
  /\ pc # "idle"
  /\ run.result # Undefined
  /\ Exists(fs, CurrentPath(run.pageName))
  /\ fs[CurrentPath(run.pageName)] = run.result

\* the run has received a reply from the oracle
Replied == pc # "idle" /\ oracleCalls > 0 /\ error # "oracle"

\* the backup this run wrote
BackupWritten ==
  /\ Exists(fs, BackupPath(run.pageName, now))
  /\ fs[BackupPath(run.pageName, now)] = run.existing

\* the files outside the backup directory
Store(files) == {p \in DOMAIN files : p.dir # "test-cases/backups"}

\* the run has completed, the run before it had completed too, and the run
\* read the version that run stored
Successive ==
  /\ pc = "done"
  /\ prev.completed
  /\ run.existing = pre[CurrentPath(run.pageName)]

\* C1: no silent deletion.  Of two successive completed runs, every id stored
\* in the version of the first is stored in the version of the second,
\* whatever well-formed list the oracle returned (a list that omits existing
\* cases, the empty list).
C1_NoSilentDeletion ==
  (Successive /\ ~Malformed(run.reply))
    => Ids(pre[CurrentPath(run.pageName)].testCases)
         \subseteq Ids(fs[CurrentPath(run.pageName)].testCases)

\* C2: backup before overwrite.  In a run whose loaded version holds at least
\* one test case, once the current document is written, and when the run has
\* completed, the backup of this run exists and holds the full document that
\* was current before the run.
C2_BackupBeforeOverwrite ==
  (pc # "idle" /\ Len(run.existing.testCases) > 0 /\ (Persisted \/ pc = "done"))
    => /\ BackupWritten
       /\ fs[BackupPath(run.pageName, now)] = pre[CurrentPath(run.pageName)]

C2_Witness ==
  /\ pc = "done"
  /\ Len(run.existing.testCases) > 0
  /\ Persisted
  /\ BackupWritten

\* C3: a failed backup write aborts the run before any mutation.  The run has
\* ended with the error, the oracle was not called, and the current document,
\* the history snapshots and the requirements mirror are as before the run.
C3_BackupFailureAborts ==
  error = "backup"
    => /\ pc = "failed"
       /\ oracleCalls = 0
       /\ Store(fs) = Store(pre)
       /\ \A p \in Store(fs) : fs[p] = pre[p]

C3_Witness ==
  /\ error = "backup"
  /\ pc = "failed"
  /\ Exists(pre, CurrentPath(run.pageName))
  /\ Exists(pre, VersionPath(run.pageName, run.existing.version))
  /\ Exists(pre, RequirementsPath(run.pageName))

\* C4 as stated: after a malformed reply the test cases of the new version
\* are those of the previous version, every field equal.
C4_FallbackIdentical ==
  (Successive /\ Malformed(run.reply))
    => fs[CurrentPath(run.pageName)].testCases = pre[CurrentPath(run.pageName)].testCases

\* C4 as amended: after a malformed reply the persisted test cases are the
\* test cases the run loaded, in the same order, every field equal except
\* lastModified, which is the new version; the document carries the new
\* version.
C4_FallbackSafety ==
  (Persisted /\ Malformed(run.reply))
    => /\ Len(run.result.testCases) = Len(run.existing.testCases)
       /\ \A i \in 1..Len(run.existing.testCases) :
            run.result.testCases[i] =
              [run.existing.testCases[i] EXCEPT !.lastModified = Chars(run.result.version)]
       /\ run.result.version = GetNextVersion(run.existing.version)

C4_Witness ==
  /\ pc = "done"
  /\ Persisted
  /\ Malformed(run.reply)
  /\ Len(run.existing.testCases) > 0

C6_VersionMonotonic ==
  \A i, j \in 1..Len(produced) : i < j => CompareVersions(produced[i], produced[j]) < 0

\* C7: the version persisted is 1.0.0 when the loaded version is 0.0.0, and
\* otherwise the loaded version with its patch number one higher and its
\* major and minor numbers unchanged.
C7_NextVersion ==
  Persisted
    => LET new == fs[CurrentPath(run.pageName)].version
           old == run.existing.version
       IN IF old = V000 THEN new = V100
          ELSE /\ Len(VersionParts(new)) = 3
               /\ VersionParts(new)[1] = VersionParts(old)[1]
               /\ VersionParts(new)[2] = VersionParts(old)[2]
               /\ VersionParts(new)[3] = VersionParts(old)[3] + 1
               /\ new = NumToStr(VersionParts(new)[1]) \o <<".">>
                          \o NumToStr(VersionParts(new)[2]) \o <<".">>
                          \o NumToStr(VersionParts(new)[3])

C7_Witness ==
  /\ pc = "done"
  /\ Persisted
  /\ run.existing.version # V000
  /\ run.result.version = <<"1", ".", "0", ".", "1">>

\* C8: id stability.  A run whose oracle echoes the existing test cases
\* persists the existing ids, unchanged and in place; when the run before it
\* completed with the same requirements record and an echoing oracle too, its
\* new-count is not larger than that run's.
C8_IdStability ==
  (Persisted /\ run.reply = Echo(run.existing))
    => /\ Len(run.result.testCases) = Len(run.existing.testCases)
       /\ \A i \in 1..Len(run.existing.testCases) :
            run.result.testCases[i].id = run.existing.testCases[i].id
       /\ (prev.completed /\ prev.echo /\ prev.newRequirements = run.newRequirements)
            => run.result.metadata.newTestCases <= prev.newTestCases

C8_Witness ==
  /\ pc = "done"
  /\ Persisted
  /\ run.reply = Echo(run.existing)
  /\ prev.completed /\ prev.echo /\ prev.newRequirements = run.newRequirements
  /\ Len(run.existing.testCases) > 0
  /\ run.result.metadata.newTestCases > 0

\* C9: addedIn never changes.  Of two successive versions, a test case of the
\* later one under an id of the earlier one has the addedIn of the earlier
\* record, whatever the reply carries in that field.
C9_AddedInPreserved ==
  Successive
    => LET earlier == pre[CurrentPath(run.pageName)].testCases
           later == fs[CurrentPath(run.pageName)].testCases
       IN \A i \in 1..Len(earlier), j \in 1..Len(later) :
            later[j].id = earlier[i].id => later[j].addedIn = earlier[i].addedIn

Priorities == {Text("critical"), Text("high"), Text("medium"), Text("low")}
Statuses == {Text("new"), Text("active"), Text("updated"), Text("deprecated")}

\* C10: every test case persisted after a reply that parses as a list is
\* structurally valid: priority and status within their enumerations, steps a
\* non-empty list, expectedResult non-empty.
C10_StructurallyValid ==
  (pc = "done" /\ ~Malformed(run.reply))
    => \A i \in 1..Len(fs[CurrentPath(run.pageName)].testCases) :
         LET tc == fs[CurrentPath(run.pageName)].testCases[i] IN
         /\ tc.priority \in Priorities
         /\ tc.status \in Statuses
         /\ IsArray(tc.steps) /\ Len(tc.steps.v) > 0
         /\ Truthy(tc.expectedResult)

\* C11: unique ids.  In every version a completed run persisted, in the
\* current document and in its history snapshot, the ids of the test cases
\* are pairwise distinct, whatever ids the reply repeats or omits.
C11_IdsDistinct ==
  pc = "done"
    => \A p \in {CurrentPath(run.pageName), VersionPath(run.pageName, run.result.version)} :
         \A i, j \in 1..Len(fs[p].testCases) :
           fs[p].testCases[i].id = fs[p].testCases[j].id => i = j

\* the history snapshots among the files
Snapshots(files) == {p \in DOMAIN files : p.dir = "test-cases/versions"}

\* C12: history snapshots are immutable.  A completed run has written the
\* snapshot named by its subject and version, and every snapshot that existed
\* when a run started still exists during and after the run with the content
\* it had: no run overwrites or removes a snapshot.
C12_SnapshotsImmutable ==
  /\ pc = "done"
       => /\ Exists(fs, VersionPath(run.pageName, run.result.version))
          /\ fs[VersionPath(run.pageName, run.result.version)] = run.result
  /\ \A p \in Snapshots(pre) : Exists(fs, p) /\ fs[p] = pre[p]

\* C14: a failed oracle call ends the run with the error and leaves the
\* persisted version as it was: the current document, the history snapshots
\* and the requirements mirror are those from before the run, and nothing
\* is written afterwards.
C14_OracleFailureIntact ==
  error = "oracle"
    => /\ pc = "failed"
       /\ run.result = Undefined
       /\ Store(fs) = Store(pre)
       /\ \A p \in Store(fs) : fs[p] = pre[p]

C14_Witness ==
  /\ error = "oracle"
  /\ pc = "failed"
  /\ BackupWritten
  /\ Exists(pre, CurrentPath(run.pageName))
  /\ Exists(pre, VersionPath(run.pageName, run.existing.version))
  /\ Exists(pre, RequirementsPath(run.pageName))

\* the history snapshots in files that runs for pageName wrote
SnapshotsOf(files, pageName) == {p \in Snapshots(files) : files[p].pageName = pageName}

\* C13: a call of getTestCaseHistory whose reads succeed returns one entry
\* per history snapshot of the subject, in ascending order of version, the
\* major, minor and patch numbers compared as numbers.
C13_HistoryOrdered ==
  (history.called /\ history.readOk)
    => LET own == SnapshotsOf(fs, history.pageName)
           h == history.returned
       IN /\ Len(h) = Cardinality(own)
          /\ \A p \in own : \E i \in 1..Len(h) : h[i] = HistoryEntry(fs[p])
          /\ \A i, j \in 1..Len(h) : i < j => CompareVersions(h[i].version, h[j].version) < 0

\* the sources field and the five requirement lists of two merged records
\* are equal
SameRecord(a, b) ==
  /\ a.v.sources = b.v.sources
  /\ \A k \in 1..Len(RequirementKeys) : a.v[RequirementKeys[k]] = b.v[RequirementKeys[k]]

\* list without its element at position j
Without(list, j) == SubSeq(list, 1, j - 1) \o SubSeq(list, j + 1, Len(list))

\* C15: idempotent merge.  When a partial occurs twice in the list
\* mergeRequirements was called on, the record it returned has the sources
\* field and the five requirement lists of the record for the list without
\* the second occurrence.
C15_MergeIdempotent ==
  merged # Undefined
    => \A i, j \in 1..Len(gather.sources) :
         (i < j /\ gather.sources[i] = gather.sources[j])
           => SameRecord(merged, MergeRequirements(Without(gather.sources, j), now))

\* list with its elements at positions i and i + 1 exchanged
Swapped(list, i) ==
  [k \in 1..Len(list) |-> IF k = i THEN list[i + 1] ELSE IF k = i + 1 THEN list[i] ELSE list[k]]

\* two lists hold the same values, each as many times in one as in the other
SameEntries(a, b) ==
  /\ Len(a) = Len(b)
  /\ \A k \in 1..Len(a) :
       Cardinality({i \in 1..Len(a) : a[i] = a[k]}) = Cardinality({i \in 1..Len(b) : b[i] = a[k]})

\* C16 as stated: the record mergeRequirements returned has the sources
\* field and the five requirement lists of the record for the same partials
\* given in another order (two neighbours exchanged).
C16_MergeCommutative ==
  merged # Undefined
    => \A i \in 1..(Len(gather.sources) - 1) :
         SameRecord(merged, MergeRequirements(Swapped(gather.sources, i), now))

\* C16 as amended: for the same partials given in another order the record
\* has the same entries in the sources field and in each of the five lists,
\* each as many times; the order of the entries follows the order of the
\* partials.
C16_MergeCommutativeUpToOrder ==
  merged # Undefined
    => \A i \in 1..(Len(gather.sources) - 1) :
         LET other == MergeRequirements(Swapped(gather.sources, i), now) IN
         /\ SameEntries(merged.v.sources.v, other.v.sources.v)
         /\ \A k \in 1..Len(RequirementKeys) :
              SameEntries(merged.v[RequirementKeys[k]].v, other.v[RequirementKeys[k]].v)

C16_Witness ==
  /\ merged # Undefined
  /\ \E i \in 1..(Len(gather.sources) - 1) :
       LET other == MergeRequirements(Swapped(gather.sources, i), now) IN
       /\ merged.v.sources # other.v.sources
       /\ merged.v.functional # other.v.functional
       /\ Len(merged.v.functional.v) > 1

\* the entries of the list under key of a partial or a merged record
Entries(record, key) ==
  IF IsArray(Prop(record, key))
  THEN {Prop(record, key).v[i] : i \in 1..Len(Prop(record, key).v)}
  ELSE {}

\* C17: a failed extractor does not fail gatherRequirements.  When the call
\* has returned and extractors have failed, it returned a merged record, no
\* error; each failed extractor contributed the empty partial under its
\* source name, which the record lists; and every entry of the partials of
\* the other extractors is in the record.
C17_ExtractorFailureIsolated ==
  (merged # Undefined /\ gather.failed # {})
    => /\ merged # Thrown
       /\ \A i \in gather.failed :
            /\ gather.sources[i] = GetEmptyAnalysis(SourceNames[i])
            /\ SourceNames[i] \in Entries(merged, "sources")
       /\ \A i \in (1..Len(gather.sources)) \ gather.failed :
            \A k \in 1..Len(RequirementKeys) :
              Entries(gather.sources[i], RequirementKeys[k])
                \subseteq Entries(merged, RequirementKeys[k])

C17_Witness ==
  /\ merged # Undefined
  /\ merged # Thrown
  /\ 1 \in gather.failed
  /\ 3 \notin gather.failed
  /\ Entries(gather.sources[3], "functional") # {}
  /\ Entries(gather.sources[2], "functional") # {}

\* the requirements are gathered for the next run, after a run that
\* completed and persisted its mirror
GatheredAfterRun ==
  /\ pc = "done"
  /\ merged \notin {Undefined, Thrown}
  /\ run.newRequirements # merged
  /\ gather.pageName = run.pageName

\* C18: requirements are not lost across runs.  Every requirement string of
\* the mirror a completed run persisted is, under the same list, in the
\* record gatherRequirements returns for the next run, whatever the other
\* extractors return.
C18_RequirementsKept ==
  GatheredAfterRun
    => LET mirror == Obj(fs[RequirementsPath(run.pageName)].requirements) IN
       \A k \in 1..Len(RequirementKeys) :
         Entries(mirror, RequirementKeys[k]) \subseteq Entries(merged, RequirementKeys[k])

\* a value is a pattern set: an object whose five categories are lists
IsPatternSet(x) ==
  /\ x.t = "object"
  /\ \A k \in 1..Len(PatternCategories) : IsArray(Prop(x, PatternCategories[k]))

\* the reply parses into a pattern set
ParsesIntoPatternSet(reply) ==
  /\ reply.t = "string"
  /\ reply.fence \in {"none", "json"}
  /\ reply.json \notin {Unparseable, EmptyBody}
  /\ IsPatternSet(reply.json)

\* C19: no reply of the oracle makes learnBusinessLogicPatterns raise.  When
\* the oracle replied and the patterns file could be written, the call
\* returned; and for a reply that does not parse into a pattern set it
\* returned the built-in default rule set, which is what the patterns file
\* then holds.
C19_LearnNeverRaises ==
  (learned.call = "learn" /\ learned.input.oracle = "replied" /\ learned.input.writeOk)
    => /\ ~learned.raised
       /\ ~ParsesIntoPatternSet(learned.input.reply)
            => /\ learned.returned = GetFallbackPatterns
               /\ patternsFile # Missing
               /\ patternsFile.patterns = GetFallbackPatterns

\* what the caller of loadLearnedPatterns has of a call: whether it raised,
\* what it returned, and the fields of the learner (the console is not the
\* caller's)
CallerView(outcome, patterns) == <<outcome.raised, outcome.returned, patterns>>

\* the call of loadLearnedPatterns found the stored fingerprint different
\* from the live one (and logged it)
Stale == learned.call = "load" /\ learned.logged

\* C20: soft invalidation.  A call of loadLearnedPatterns that read the
\* patterns file returned the cached pattern set, also when the stored
\* fingerprint differs from the live one, and then what the caller has of
\* the call differs from what it has of a call on a fresh cache; the call
\* returned no pattern set only when the file is missing or was not read.
C20_SoftInvalidation ==
  learned.call = "load"
    => /\ (learned.input /\ patternsFile # Missing)
            => /\ learned.returned = patternsFile.patterns
               /\ Stale => CallerView(learned, learnedPatterns)
                             # CallerView(LoadOutcome(patternsFile,
                                                      patternsFile.projectFingerprint, TRUE),
                                          patternsFile.patterns)
       /\ learned.returned = Null => (patternsFile = Missing \/ ~learned.input)

\* every member of the learned patterns is a list
CategoriesAreLists(patterns) ==
  \A k \in EntryKeys(patterns) : IsArray(EntryValue(patterns, k))

\* the rules of a list whose expression compiles and matches in content
Matching(rules, content) ==
  {i \in 1..Len(rules) :
     /\ rules[i] \notin {Null, Undefined}
     /\ Compile(Prop(rules[i], "regex")).ok
     /\ Len(Matches(content, Compile(Prop(rules[i], "regex")))) > 0}

\* C21: a rule whose expression does not compile is skipped.  A call of
\* analyzeCodeWithLearnedPatterns on learned patterns whose categories are
\* lists returns; for every category the analysis lists, in the order of
\* the rules, one entry for each rule that compiles and matches, whatever
\* rules beside it do not compile, and none for the others; the entry
\* carries the name of the rule, the number of its matches and the first
\* matches as examples, at most MaxExamples.
C21_InvalidRuleSkipped ==
  (learned.call = "classify" /\ Truthy(learnedPatterns) /\ CategoriesAreLists(learnedPatterns))
    => /\ ~learned.raised
       /\ \A k \in EntryKeys(learnedPatterns) :
            LET rules == EntryValue(learnedPatterns, k).v
                content == learned.input.content
                found == learned.returned[k]
                applied == Matching(rules, content)
            IN /\ Len(found) = Cardinality(applied)
               /\ \A i \in applied :
                    LET entry == found[Cardinality({j \in applied : j <= i})]
                        matches == Matches(content, Compile(Prop(rules[i], "regex")))
                    IN /\ entry.pattern = Prop(rules[i], "name")
                       /\ entry.matches = Len(matches)
                       /\ entry.file = learned.input.filePath
                       /\ Len(entry.examples) <= MaxExamples
                       /\ Len(entry.examples) <= Len(matches)
                       /\ \A e \in 1..Len(entry.examples) : entry.examples[e] = matches[e]

C21_Witness ==
  /\ learned.call = "classify"
  /\ learnedPatterns = ClassifySet
  /\ ~learned.raised
  /\ Len(learned.returned.calculations) = 2
  /\ learned.returned.calculations[1].matches = 4
  /\ Len(learned.returned.calculations[1].examples) = 3
  /\ learned.returned.calculations[2].pattern = Text("Fees")
  /\ learned.returned.validations = <<>>
  /\ Len(learned.returned.businessRules) = 1

RECURSIVE VersionsUpTo(_)
\* the versions of the first n runs of a subject
VersionsUpTo(n) ==
  IF n = 0 THEN {}
  ELSE IF n = 1 THEN {V100}
  ELSE LET before == VersionsUpTo(n - 1) IN
       before \cup {GetNextVersion(v) : v \in before}

\* the path is one updateTestCases writes for the subject: its current
\* document, its mirror, one of its snapshots or one of its backups
NamedFor(pageName, path) ==
  \/ path \in {CurrentPath(pageName), RequirementsPath(pageName)}
  \/ \E v \in VersionsUpTo(MaxRuns + 2) : path = VersionPath(pageName, v)
  \/ \E t \in 0..(MaxRuns + 1) : path = BackupPath(pageName, t)

\* the paths a step has written: created, or given another content
Written(before, after) ==
  {p \in DOMAIN after : p \notin DOMAIN before \/ after[p] # before[p]}

\* what a run writes at a path of its subject
OwnContent(r, path) ==
  IF path.dir = "test-cases/backups" THEN {r.existing}
  ELSE IF r.result = Undefined THEN {}
  ELSE IF path = RequirementsPath(r.pageName)
  THEN {[version |-> r.result.version, lastUpdated |-> r.result.lastUpdated,
         requirements |-> r.result.requirements]}
  ELSE {r.result}

\* the files of the subject of a run are those the run would have left had
\* it executed alone: each is as it was when the run started, or holds what
\* this run writes there; the run loaded the document that was current for
\* its subject; and once it has completed, the three files hold its result
AsAlone(at, r, before, files) ==
  at # "idle"
    => /\ \A p \in DOMAIN before : NamedFor(r.pageName, p) => p \in DOMAIN files
       /\ \A p \in DOMAIN files :
            NamedFor(r.pageName, p)
              => \/ p \in DOMAIN before /\ files[p] = before[p]
                 \/ files[p] \in OwnContent(r, p)
       /\ \/ r.existing.version = V000 /\ r.existing.testCases = <<>>
          \/ /\ Exists(before, CurrentPath(r.pageName))
             /\ r.existing = before[CurrentPath(r.pageName)]
       /\ at = "done"
            => \A p \in {CurrentPath(r.pageName), RequirementsPath(r.pageName),
                         VersionPath(r.pageName, r.result.version)} :
                 p \in DOMAIN files /\ files[p] \in OwnContent(r, p)

\* C22: runs for two different subjects are independent.  Every step of a
\* run writes only files named for the subject of the run, no file is named
\* for both subjects, and while the two runs are for different subjects the
\* files of each subject (current document, mirror, backups, snapshots) are
\* those its run alone leaves, wherever the other run stands.
C22_SubjectsIndependent ==
  [][/\ \A p \in Written(fs, fs') : NamedFor(run'.pageName, p)
     /\ \A p \in DOMAIN fs' : ~(NamedFor(dash, p) /\ NamedFor(dashV2, p))
     /\ (run'.pageName # peer'.run.pageName)
          => /\ AsAlone(pc', run', pre', fs')
             /\ AsAlone(peer'.pc, peer'.run, peer'.pre, fs')]_vars

\* both runs are between their writes, each with a backup written
C22_Witness ==
  /\ pc = "save-version"
  /\ peer.pc = "save-requirements"
  /\ run.pageName = dash
  /\ peer.run.pageName = dashV2
  /\ Len(run.existing.testCases) > 0
  /\ Len(peer.run.existing.testCases) > 0
  /\ fs[CurrentPath(dash)] = run.result
  /\ fs[VersionPath(dashV2, peer.run.result.version)] = peer.run.result

\* C23: the new-count.  The new-count in the metadata of a persisted
\* version is the number of its test cases whose id is not in the version the
\* run loaded and whose status is new: a case under an id of that version is
\* not counted, nor is a case with a fresh id and another status.
C23_NewCount ==
  Persisted
    => run.result.metadata.newTestCases =
         Cardinality({i \in 1..Len(run.result.testCases) :
                        /\ run.result.testCases[i].id \notin Ids(run.existing.testCases)
                        /\ run.result.testCases[i].status = Text("new")})

\* C24: changes notes.  In a persisted version a test case carries a
\* changes note only when its status is updated, and every entry of
\* metadata.changesSummary is the id and the note of such a test case.
C24_ChangesOnlyWhenUpdated ==
  Persisted
    => LET stored == fs[CurrentPath(run.pageName)] IN
       /\ \A i \in 1..Len(stored.testCases) :
            Truthy(stored.testCases[i].changes)
              => stored.testCases[i].status = Text("updated")
       /\ \A e \in 1..Len(stored.metadata.changesSummary) :
            \E i \in 1..Len(stored.testCases) :
              /\ stored.testCases[i].id = stored.metadata.changesSummary[e].id
              /\ stored.testCases[i].changes = stored.metadata.changesSummary[e].changes
              /\ stored.testCases[i].status = Text("updated")

\* the current document, the snapshot of its version and the mirror all
\* hold the result of the run
AllWritten ==
  /\ run.result # Undefined
  /\ \A p \in {CurrentPath(run.pageName), RequirementsPath(run.pageName),
               VersionPath(run.pageName, run.result.version)} :
       Exists(fs, p) /\ fs[p] \in OwnContent(run, p)

\* the current document, the snapshots and the mirror are as before the run
NoneWritten ==
  /\ Store(fs) = Store(pre)
  /\ \A p \in Store(fs) : fs[p] = pre[p]

\* C25: no partial write.  When a run has ended, completed or failed at any
\* step, the current document, the snapshot of its version and the mirror
\* all hold the new version, or none of them was changed.
C25_NoPartialWrite ==
  pc \in {"done", "failed"} => (AllWritten \/ NoneWritten)

\* C26: a recovery copy before the overwrite.  When a run has just
\* overwritten the current document of its subject, a backup or a snapshot
\* holds the content that was overwritten, whether that document held test
\* cases, held none, or could not be read when the run loaded it.
C26_RecoveryCopyExists ==
  (pc = "save-version" /\ Exists(pre, CurrentPath(run.pageName)))
    => \E p \in DOMAIN fs :
         /\ p.dir \in {"test-cases/backups", "test-cases/versions"}
         /\ fs[p] = pre[CurrentPath(run.pageName)]

\* the position of the first occurrence of a value in a list
FirstAt(list, x) == CHOOSE i \in 1..Len(list) : list[i] = x /\ \A j \in 1..(i - 1) : list[j] # x

\* a string that is empty or holds white space only
Blank(req) == \A i \in 1..Len(req.c) : req.c[i] = " "

\* C27: the lists of a merged record.  Each of the five requirement lists
\* of the record mergeRequirements returned holds no string twice and no
\* empty or blank string; it holds every other string of the lists of the
\* partials under its key, in the order of their first occurrence across
\* the partials taken in input order.
C27_ListsDeduplicated ==
  (merged # Undefined /\ merged # Thrown)
    => \A k \in 1..Len(RequirementKeys) :
         LET list == merged.v[RequirementKeys[k]].v
             given == Collect(gather.sources, RequirementKeys[k])
         IN /\ \A i, j \in 1..Len(list) : list[i] = list[j] => i = j
            /\ \A i \in 1..Len(list) : ~Blank(list[i])
            /\ \A i \in 1..Len(list) : \E g \in 1..Len(given) : given[g] = list[i]
            /\ \A g \in 1..Len(given) :
                 ~Blank(given[g]) => \E i \in 1..Len(list) : list[i] = given[g]
            /\ \A i, j \in 1..Len(list) :
                 i < j => FirstAt(given, list[i]) < FirstAt(given, list[j])

C27_Witness ==
  /\ merged # Undefined
  /\ merged # Thrown
  /\ merged.v.functional.v = <<ReqTrades, ReqMobile>>
  /\ LET given == Collect(gather.sources, "functional") IN
     /\ Len(given) > 4
     /\ \E g \in 1..Len(given) : given[g] = ReqBlank
     /\ \E g \in 1..Len(given) : given[g] = ReqEmpty
     /\ given[Len(given)] = ReqTrades

\* every partial that has been returned is at the position of its
\* extractor in the Promise.all
AtItsPosition ==
  \A i \in 1..Len(gather.sources) :
    gather.sources[i] = Pending \/ Prop(gather.sources[i], "source") = SourceNames[i]

\* C28 as stated: the record gatherRequirements returned is the record of
\* any other run with the same extractor outputs, whenever that run merges.
C28_RunsIdentical ==
  (merged # Undefined /\ merged # Thrown)
    => /\ AtItsPosition
       /\ \A t \in 0..MaxRuns : merged = MergeRequirements(gather.sources, t)

\* C28 as amended: whatever the order in which the extractors return, each
\* partial is merged at the position of its extractor, and the record
\* returned has the sources field and the five requirement lists of the
\* record of any other run with the same extractor outputs; lastUpdated is
\* the clock reading of the merge.
C28_OrderIndependent ==
  /\ AtItsPosition
  /\ (merged # Undefined /\ merged # Thrown)
       => /\ merged.v.sources.v = SourceNames
          /\ merged.v.lastUpdated = Num(now)
          /\ \A t \in 0..MaxRuns : SameRecord(merged, MergeRequirements(gather.sources, t))

\* the extractors returned in another order than that of their positions,
\* the first and the last with entries
C28_Witness ==
  /\ merged # Undefined
  /\ merged # Thrown
  /\ ~gather.inOrder
  /\ Entries(gather.sources[1], "functional") # {}
  /\ Entries(gather.sources[5], "functional") # {}
  /\ Len(merged.v.businessRules.v) > 1

\* the dependency names a package.json declares
Names(pkg) ==
  IF pkg = Missing THEN {}
  ELSE {pkg.dependencies[i] : i \in 1..Len(pkg.dependencies)}
         \cup {pkg.devDependencies[i] : i \in 1..Len(pkg.devDependencies)}

\* loadLearnedPatterns has read the patterns file and compared its
\* fingerprint with that of the live project, package.json having been read
\* both when the file was written and now
Compared ==
  /\ learned.call = "load"
  /\ learned.input
  /\ patternsFile # Missing
  /\ project.learnt.ok
  /\ project.loaded.ok

\* C29: the fingerprint decides freshness.  When loadLearnedPatterns
\* compares the stored fingerprint with the live one, it finds them equal
\* when the project declares the dependency names it declared at learning
\* time, in whatever order, and different whenever the names differ.
C29_FingerprintDecides ==
  Compared
    => /\ (/\ Names([project.loaded.pkg EXCEPT !.devDependencies = <<>>])
                = Names([project.learnt.pkg EXCEPT !.devDependencies = <<>>])
           /\ Names([project.loaded.pkg EXCEPT !.dependencies = <<>>])
                = Names([project.learnt.pkg EXCEPT !.dependencies = <<>>]))
            => ~learned.logged
       /\ Names(project.loaded.pkg) # Names(project.learnt.pkg) => learned.logged

\* C30: the history of a subject holds its own snapshots only.  A call of
\* getTestCaseHistory whose reads succeed returns no more entries than the
\* store holds snapshots written by runs for the subject, and every entry
\* is that of one of them, whatever the names of the other subjects.
C30_HistoryOfSubjectOnly ==
  (history.called /\ history.readOk)
    => /\ Len(history.returned) <= Cardinality(SnapshotsOf(fs, history.pageName))
       /\ \A i \in 1..Len(history.returned) :
            \E p \in SnapshotsOf(fs, history.pageName) :
              history.returned[i] = HistoryEntry(fs[p])

====
